---- MODULE Spec2Model ----
(***************************************************************************)
(* NillionVault backend ("Nillion-only" mode): the upload / verify /       *)
(* delete routes, the NillionDB storage client and the anchor service,     *)
(* as a state machine.  An await of the source is a step boundary where   *)
(* other handlers can observe or change shared state (the NillionDB       *)
(* collection, anchorStore); the method loop of sendTransaction, whose    *)
(* state is local, is one step.  Every call into an external collaborator *)
(* (NillionDB SDK, nilChain RPC) draws its outcome nondeterministically.  *)
(***************************************************************************)
EXTENDS Integers, Sequences, FiniteSets, TLC

(*************************** bounds of the model ***************************)
\* number of upload requests a behaviour may contain (one handler each)
MaxUploads == 2

U == 1..MaxUploads

\* number of rows the anchors table of the database-backed build may get
MaxAnchorRows == 2

\* number of those uploads in behaviours where the RPC endpoint accepts
\* submissions and receipts are polled
MaxPolled == 1

PU == 1..MaxPolled

\* number of records the listed collection may hold
MaxStored == 3

\* largest number in the JSON payloads that are hashed
MaxNum == 2

\* contents of uploaded files (raw bytes)
FileContents == {"7", "c2"}

(************************** program constants ******************************)
\* waitForConfirmation(txHash, maxAttempts = 30, delay = 2000)
maxAttempts == 30

\* const methods = [...] in sendTransaction
methods == <<"nil_sendRawTransaction", "nilchain_sendTransaction",
             "eth_sendRawTransaction", "sendTransaction">>

(************************** hashing ****************************************)
\* crypto.createHash('sha256').update(x).digest('hex'): an injective
\* function of its input (collisions are not modelled)
Sha256(s) == "H(" \o s \o ")"

computeBinaryProofHash(buffer) == Sha256(buffer)

\* JavaScript values: numbers, arrays, objects (keys in insertion order,
\* kids[i] the value of keys[i]) and strings
Num(n) == [t |-> "number", n |-> n, s |-> "", keys |-> <<>>, kids |-> <<>>]

Arr(items) ==
  [t |-> "array", n |-> 0, s |-> "", keys |-> <<>>, kids |-> items]

Obj(keys, kids) ==
  [t |-> "object", n |-> 0, s |-> "", keys |-> keys, kids |-> kids]

Str(s) == [t |-> "string", n |-> 0, s |-> s, keys |-> <<>>, kids |-> <<>>]

\* the exception of JSON.parse
SyntaxError ==
  [t |-> "SyntaxError", n |-> 0, s |-> "", keys |-> <<>>, kids |-> <<>>]

\* the numbers, the key lists and the JSON values of the model: scalars,
\* arrays and objects of scalars, arrays and objects holding one of those,
\* and arrays of two one-member objects
JsonNumbers == 1..MaxNum

KeyLists == {<<"a">>, <<"b">>, <<"a", "b">>, <<"b", "a">>}

JsonScalars == {Num(n) : n \in JsonNumbers}

FlatCompound ==
  {Arr(items) : items \in [1..1 -> JsonScalars] \cup [1..2 -> JsonScalars]}
    \cup UNION {{Obj(ks, kids) : kids \in [1..Len(ks) -> JsonScalars]} :
                  ks \in KeyLists}

JsonValues ==
  JsonScalars \cup FlatCompound \cup {Num(7), Arr(<<Num(7)>>)}
    \cup {Obj(<<k>>, <<v>>) : k \in {"a", "b"}, v \in FlatCompound}
    \cup {Arr(<<v>>) : v \in {w \in FlatCompound : w.t = "object"}}
    \cup {Arr(<<Obj(<<k>>, <<m>>), Obj(<<k>>, <<n>>)>>) :
             k \in {"a", "b"}, m \in JsonScalars, n \in JsonScalars}

\* property names in the order Array.prototype.sort() puts them (UTF-16
\* code units)
KeyOrder == <<"0", "1", "a", "b">>

\* a sort that leaves the keys as inserted
sort_asInserted(keys) == keys

sort(keys) ==
  SelectSeq(KeyOrder, LAMBDA k : \E i \in DOMAIN keys : keys[i] = k)

\* Object.keys(value)
ObjectKeys(value) ==
  IF value.t = "object" THEN value.keys
  ELSE IF value.t = "array"
    THEN [i \in 1..Len(value.kids) |-> ToString(i - 1)]
    ELSE <<>>

\* obj[key]
Get(obj, key) == obj.kids[CHOOSE i \in DOMAIN obj.keys : obj.keys[i] = key]

\* the replacer argument of JSON.stringify: absent, or an array of names
NoReplacer == [given |-> FALSE, names |-> <<>>]

Replacer(names) == [given |-> TRUE, names |-> names]

\* JSON.stringify(value, replacer) without indentation: the members of an
\* object are written in insertion order, or, with an array replacer, the
\* members named by the array in the order of the array, at every depth;
\* the elements of an array are all written
RECURSIVE JSONstringify(_, _), SerializeMembers(_, _, _, _),
          SerializeElements(_, _, _)
JSONstringify(value, replacer) ==
  CASE value.t = "number" -> ToString(value.n)
    [] value.t = "array"  ->
         "[" \o SerializeElements(value.kids, 1, replacer) \o "]"
    [] value.t = "object" ->
         LET K == IF replacer.given
                    THEN SelectSeq(replacer.names,
                           LAMBDA k : \E i \in DOMAIN value.keys :
                                         value.keys[i] = k)
                    ELSE value.keys
         IN  "{" \o SerializeMembers(value, K, 1, replacer) \o "}"

SerializeMembers(value, K, i, replacer) ==
  IF i > Len(K) THEN ""
  ELSE (IF i > 1 THEN "," ELSE "")
         \o "\"" \o K[i] \o "\":"
         \o JSONstringify(Get(value, K[i]), replacer)
         \o SerializeMembers(value, K, i + 1, replacer)

SerializeElements(items, i, replacer) ==
  IF i > Len(items) THEN ""
  ELSE (IF i > 1 THEN "," ELSE "")
         \o JSONstringify(items[i], replacer)
         \o SerializeElements(items, i + 1, replacer)

\* String(value), the coercion JSON.parse applies to its argument
RECURSIVE String(_), JoinElements(_, _)
String(value) ==
  CASE value.t = "string" -> value.s
    [] value.t = "number" -> ToString(value.n)
    [] value.t = "array"  -> JoinElements(value.kids, 1)
    [] value.t = "object" -> "[object Object]"

JoinElements(items, i) ==
  IF i > Len(items) THEN ""
  ELSE (IF i > 1 THEN "," ELSE "") \o String(items[i])
         \o JoinElements(items, i + 1)

\* the compact text of each JSON value of the model, keys as inserted
JsonText == [v \in JsonValues |-> JSONstringify(v, NoReplacer)]

\* the value each JSON text of the model denotes, keys in the order of the
\* text
JsonValueOf ==
  [text \in {JsonText[v] : v \in JsonValues} |->
     CHOOSE v \in JsonValues : JsonText[v] = text]

\* JSON.parse(text): the value the text denotes, or a SyntaxError
JSONparse(text) ==
  IF text \in DOMAIN JsonValueOf THEN JsonValueOf[text] ELSE SyntaxError

\* the jsonData bodies an upload may carry
JsonTexts == {"7", "[7]", "{\"a\":1}", "{bad"}

\* computeJsonProofHash(jsonData) of routes/credentials.js and
\* routes/verification.js: JSON.parse is applied to its argument (coerced
\* to a string), the result is serialised with its sorted top-level keys as
\* the replacer and hashed; any exception becomes
\* Error('Invalid JSON data for hashing').
computeJsonProofHash(jsonData) ==
  LET parsed == JSONparse(String(jsonData))
  IN  IF parsed.t = "SyntaxError" THEN "throw"
      ELSE Sha256(JSONstringify(parsed, Replacer(sort(ObjectKeys(parsed)))))

(* tools/hash.js, the standalone hash tool *)
sha256Hex(str) == Sha256(str)

\* canonicalize(obj): arrays element by element, objects with their keys
\* sorted and their values canonicalized, anything else as it is
RECURSIVE canonicalize(_)
canonicalize(obj) ==
  CASE obj.t = "array"  ->
         Arr([i \in 1..Len(obj.kids) |-> canonicalize(obj.kids[i])])
    [] obj.t = "object" ->
         LET keys == sort(ObjectKeys(obj))
         IN  Obj(keys, [i \in 1..Len(keys) |->
                          canonicalize(Get(obj, keys[i]))])
    [] OTHER -> obj

\* computeJsonProofHash(jsonData) of tools/hash.js: a string is parsed, any
\* other value is taken as it is; "throw" for the Error it raises
hash_computeJsonProofHash(jsonData) ==
  LET parsed == IF jsonData.t = "string" THEN JSONparse(jsonData.s)
                ELSE jsonData
  IN  IF parsed.t = "SyntaxError" THEN "throw"
      ELSE sha256Hex(JSONstringify(canonicalize(parsed), NoReplacer))

\* computeFileProofHash(filePath) on the bytes of the file
computeFileProofHash(buffer) ==
  LET jsonData == JSONparse(buffer)
  IN  IF jsonData.t = "SyntaxError" THEN computeBinaryProofHash(buffer)
      ELSE hash_computeJsonProofHash(jsonData)

NoHash == "none"

\* the proof hash an upload request yields, or "ValidationError"
(* req = [kind, body, clientProofHash] *)
UploadHash(req) ==
  IF req.kind = "empty" THEN "ValidationError"
  ELSE IF req.kind = "json"
    THEN LET jsonData == JSONparse(req.body)
         IN  IF jsonData.t = "SyntaxError" THEN "ValidationError"
             ELSE IF computeJsonProofHash(jsonData) = "throw"
                  THEN "ValidationError"
                  ELSE computeJsonProofHash(jsonData)
    ELSE computeBinaryProofHash(req.body)

\* proof hashes a well-formed request of the model can carry
Hashes == {Sha256(c) : c \in FileContents} \cup {Sha256("7")}

\* a well-formed hash that no upload of the model produces
NeverIssued == Sha256("zz")

ClientHashes == {NoHash, Sha256("7")}

Requests ==
  [kind : {"file"}, body : FileContents, clientProofHash : ClientHashes]
    \cup [kind : {"json"}, body : JsonTexts, clientProofHash : ClientHashes]
    \cup [kind : {"empty"}, body : {""}, clientProofHash : {NoHash}]

(************************** state ******************************************)
VARIABLES
  initState,    \* nillionService: "pending" while initializationPromise is
                \* unresolved ("registering" once builderClient is assigned),
                \* then "ready" (builderClient set) or "failed" (builderClient
                \* null)
  vault,        \* records of the NillionDB collection
  up,           \* the upload request handlers
  anchorService,\* TRUE iff the anchorService singleton was constructed
  rpcMode,      \* "any": the nilChain RPC may answer anything;
                \* "failing": every call gets an error response, rejects
                \* (network error, timeout) or gets a null body
  anc,          \* the anchorCredential invocations and their anchorData
  anchorStore,  \* Map proofHash -> anchorData (0: no entry)
  verifyResp,   \* response of the latest verify request
  listing,      \* GET /list: the records of the collection as findData
                \* returns them, payloads included, and the last response
  hasher,       \* the hash entry point called last, the texts x and y of
                \* two of its calls and what it answered for each
  db,           \* database-backed build: the credentials and anchors
                \* tables, the anchor queue, the upload responses
  http,         \* the request served last, seen at the HTTP boundary: the
                \* route, what was asked, the calls the handler made to the
                \* SDKs, in order, and the response
  sent,         \* the sendTransaction call made last: the answers of the RPC
                \* endpoint, the methods posted, in order, and the result
  written       \* the storeCredentialReal call made last: the file name and
                \* type given, the SDK calls made, the plaintext fields of
                \* the record written and the message of the Error thrown

vars == <<initState, vault, up, anchorService, rpcMode, anc, anchorStore,
          verifyResp, db, hasher, listing, http, sent,
          written>>

NoResp == [kind |-> "none", proofHash |-> NoHash, status |-> "none"]

\* pc: position of the handler; hash: its proofHash; resp: its response;
\* wrote: createStandardData was issued for it; prior: the uploads of the
\* same hash that had succeeded when it arrived; checked: whether its
\* duplicate check was answered by NillionDB
IdleUpload == [pc |-> "idle", hash |-> NoHash, resp |-> NoResp,
               wrote |-> FALSE, prior |-> {}, checked |-> "none"]

\* pc, attempt: position of anchorCredential / waitForConfirmation; status .. confirmationError: fields of anchorData;
\* stored: anchorData was handed to storeAnchor; rpcFailed: no send method
\* got a response that is not a failure; receipt: the receipt that ended
\* the wait; seq: the rank of created_at among the anchorData objects of the
\* same proof hash (0: not created)
NoAnchor == [pc |-> "none", hash |-> NoHash,
             rpcFailed |-> TRUE, stored |-> FALSE, status |-> "none",
             anchor_type |-> "none", tx_hash |-> "none", txStatus |-> "none",
             block_height |-> "none", attempt |-> 0, resultType |-> "none",
             seq |-> 0,
             receipt |-> "none", confirmationError |-> "none"]

\* kind, proof_hash_matches: the response; issued, everStored, lookupOk:
\* what held when the handler queried NillionDB (an upload had answered
\* 'vaulted' for the hash and its record was still stored / a record with
\* the hash had ever been written / the query was answered)
NoVerify == [endpoint |-> "none", proofHash |-> NoHash, kind |-> "none",
             proof_hash_matches |-> FALSE, issued |-> FALSE,
             everStored |-> FALSE, lookupOk |-> FALSE,
             anchor |-> 0, anchorType |-> "null",
             anchorStatus |-> "not_anchored", blockchain_verified |-> FALSE,
             latestStored |-> 0, status |-> "none"]

\* a row of the credentials table that does not exist yet
NoRow == [status |-> "none", proof_hash |-> NoHash]

\* cred: the credentials table by upload; resp: the upload responses;
\* anchors: the anchors table in insertion order (pc: position of the
\* anchorCredential invocation that created the row); jobs: credentials
\* with an anchor job in the queue; retry: the last answer of POST /retry;
\* anchorQueue: this.anchorQueue of the queue service is set (the
\* constructor leaves it null); accepted: the credentials for which
\* enqueueAnchorJob returned a job; audit: the anchors with a 'retry' entry
\* in the audit log
NoRetry == [anchorId |-> 0, resp |-> "none"]

InitDb == [cred |-> [u \in U |-> NoRow], resp |-> [u \in U |-> "none"],
           anchors |-> <<>>, jobs |-> {}, retry |-> NoRetry,
           anchorQueue |-> FALSE, accepted |-> {}, audit |-> {}]

\* no hash function called
NoHasher == [x |-> "", y |-> "", op |-> "none", hx |-> "none", hy |-> "none"]

\* empty collection, GET /list not called; findData: how the read of the
\* collection made for the response ended
NoListing == [dataArray |-> <<>>, resp |-> [kind |-> "none"],
              findData |-> "none"]

(************************** requests and responses *************************)
\* configured limits: multer limits.fileSize, and the size a plaintext
\* field of a record may have when encoded (fileSize is 10 * 1024 * 1024)
fileSize == 10485760

maxFieldBytes == 4096

\* name.substring(0, 3500) of the file name truncation
keptNameChars == 3500

\* the errors the handlers pass to next(error)
AppError(message, statusCode) ==
  [name |-> "AppError", message |-> message, statusCode |-> statusCode,
   code |-> "", details |-> ""]

ValidationError(message, details) ==
  [name |-> "ValidationError", message |-> message, statusCode |-> 400,
   code |-> "", details |-> details]

\* new Error(message): no statusCode, no details
Error(message) ==
  [name |-> "Error", message |-> message, statusCode |-> 0, code |-> "",
   details |-> ""]

\* the MulterError of a file larger than limits.fileSize
MulterError(code) ==
  [name |-> "MulterError", message |-> "File too large", statusCode |-> 0,
   code |-> code, details |-> ""]

\* a response: statusCode, the error member of an error body, its details
\* ("" when absent), whether it carries err.stack, and for a success the
\* message and status members of the body
Response(statusCode, error, details, stack) ==
  [statusCode |-> statusCode, error |-> error, details |-> details,
   stack |-> stack, message |-> "", status |-> ""]

Success(message, status) ==
  [statusCode |-> 200, error |-> "", details |-> "", stack |-> FALSE,
   message |-> message, status |-> status]

\* the message of the response to a ValidationError
ValidationMessage(err) == "Validation Error"

\* the error handling middleware; isDevelopment: NODE_ENV is 'development'
errorHandler(err, isDevelopment) ==
  LET statusCode == IF err.name = "ValidationError" THEN 400
                    ELSE IF err.name = "UnauthorizedError" THEN 401
                    ELSE IF err.code = "LIMIT_FILE_SIZE" THEN 413
                    ELSE IF err.statusCode # 0 THEN err.statusCode ELSE 500
      message    == IF err.name = "ValidationError"
                      THEN ValidationMessage(err)
                    ELSE IF err.name = "UnauthorizedError" THEN "Unauthorized"
                    ELSE IF err.code = "LIMIT_FILE_SIZE" THEN "File too large"
                    ELSE IF err.message # "" THEN err.message
                    ELSE "Internal Server Error"
  IN  Response(statusCode, message, err.details, isDevelopment)

\* no record written
NoRecord == [stem |-> 0, ext |-> 0, file_name |-> 0, file_type |-> 0]

\* storeCredentialReal not called yet
NoStore == [pc |-> "idle", name |-> [stem |-> 0, ext |-> 0, width |-> 1],
            type |-> 0, calls |-> <<>>, record |-> NoRecord, error |-> ""]

\* sendTransaction not called yet
NoSend == [pc |-> "idle", proofHash |-> NoHash, rpc |-> <<>>, posts |-> <<>>,
           txResult |-> [txHash |-> "", status |-> "none",
                         anchorType |-> "none"]]

\* no request served yet
NoHttp == [route |-> "none", req |-> [kind |-> "none"], calls |-> <<>>,
           res |-> Response(0, "", "", FALSE)]

Init ==
  /\ db = InitDb
  /\ listing = NoListing
  /\ http = NoHttp
  /\ sent = NoSend
  /\ written = NoStore
  /\ hasher = NoHasher
  /\ initState = "pending"
  /\ vault = {}
  /\ up = [u \in U |-> IdleUpload]
  /\ anchorService \in BOOLEAN
  /\ rpcMode \in {"any", "failing"}
  /\ anc = [a \in U |-> NoAnchor]
  /\ anchorStore = [h \in Hashes |-> 0]
  /\ verifyResp = NoVerify

(************************** storage client *********************************)
\* variant: the operation does not wait for initializationPromise
initialized_notAwaited == TRUE

\* await this.initializationPromise has returned: the promise is settled, or
\* there is none (configuration missing)
initialized == initState \in {"ready", "failed"}

\* this.builderClient is set: assigned when SecretVaultBuilderClient.from
\* resolves, before refreshRootToken and the registration; reset to null
\* by the catch block
builderClient == initState \in {"registering", "ready"}

\* initializeRealClientAsync up to the assignment of this.builderClient
CreateBuilderClient ==
  /\ initState = "pending"
  /\ initState' = "registering"
  /\ UNCHANGED <<vault, up, anchorService, rpcMode, anc, anchorStore,
                 verifyResp, db, hasher, listing, http, sent,
                 written>>

\* initializeRealClientAsync settles: builderClient is set, or the catch
\* block leaves it null ("mock mode")
InitializeClient ==
  /\ initState \in {"pending", "registering"}
  /\ initState' \in {"ready", "failed"}
  /\ UNCHANGED <<vault, up, anchorService, rpcMode, anc, anchorStore,
                 verifyResp,
                 db,
                 hasher,
                 listing,
                 http,
                 sent,
                 written>>

\* outcomes of the SDK calls of one getCredentialByProofHash
\*   "ok"          findData answers with the records of the collection
\*   "findFail"    findData rejects for both call signatures
\*   "refreshFail" refreshRootToken rejects
LookupOutcomes == {"ok", "findFail", "refreshFail"}

\* String.prototype.toLowerCase over the letters of the model's digests
RECURSIVE toLowerCase(_)
toLowerCase(s) ==
  IF s = "" THEN ""
  ELSE (IF SubSeq(s, 1, 1) = "H" THEN "h" ELSE SubSeq(s, 1, 1))
         \o toLowerCase(SubSeq(s, 2, Len(s)))

\* variant: the comparison ignores letter case
matchingRecord_ignoreCase(record, proofHash) ==
  toLowerCase(record.proof_hash) = toLowerCase(proofHash)

\* dataArray.find(record => record.proof_hash === proofHash)
matchingRecord(record, proofHash) == record.proof_hash = proofHash

\* getCredentialByProofHash(proofHash): the credential (status 'vaulted',
\* proof_hash of the matching record), null, or a rejection
getCredentialByProofHash(proofHash, outcome) ==
  IF ~builderClient \/ outcome = "refreshFail"
    THEN [kind |-> "throw", proof_hash |-> NoHash, status |-> "none"]
  ELSE IF outcome = "findFail"
    THEN [kind |-> "null", proof_hash |-> NoHash, status |-> "none"]
  ELSE IF \E r \in vault : matchingRecord(r, proofHash)
    THEN [kind |-> "found",
          proof_hash |-> (CHOOSE r \in vault : matchingRecord(r, proofHash)).proof_hash,
          status |-> "vaulted"]
    ELSE [kind |-> "null", proof_hash |-> NoHash, status |-> "none"]

(************************** POST /upload ***********************************)
\* uploads that had answered 'vaulted' for this hash and whose record is
\* still stored
SucceededWith(h) ==
  {v \in U : /\ up[v].pc = "done" /\ up[v].resp.kind = "vaulted"
             /\ up[v].hash = h
             /\ [rid |-> v, proof_hash |-> h] \in vault}

\* the handler up to its first await: input check, hashing, client hash check
UploadReceive(u, req) ==
  /\ up[u].pc = "idle"
  /\ LET h == UploadHash(req)
     IN  IF h = "ValidationError"
              \/ (req.clientProofHash # NoHash /\ req.clientProofHash # h)
           THEN up' = [up EXCEPT ![u].pc = "done",
                         ![u].resp = [kind |-> "error", proofHash |-> NoHash,
                                      status |-> "400"]]
           ELSE up' = [up EXCEPT ![u].pc = "lookup", ![u].hash = h,
                         ![u].prior = SucceededWith(h)]
  /\ UNCHANGED <<initState, vault, anchorService, rpcMode, anc, anchorStore,
                 verifyResp,
                 db,
                 hasher,
                 listing,
                 http,
                 sent,
                 written>>

\* the duplicate check: an existing credential is answered at once, a
\* missing one or a failed lookup continues with the upload
UploadLookup(u, outcome) ==
  /\ up[u].pc = "lookup"
  /\ initialized
  /\ LET existingCredential == getCredentialByProofHash(up[u].hash, outcome)
     IN  IF existingCredential.kind = "found"
           THEN up' = [up EXCEPT ![u].pc = "done",
                         ![u].resp = [kind |-> "exists",
                                      proofHash |-> existingCredential.proof_hash,
                                      status |-> existingCredential.status]]
           ELSE up' = [up EXCEPT ![u].pc = "store",
                         ![u].checked = IF builderClient /\ outcome = "ok"
                                          THEN "answered" ELSE "failed"]
  /\ UNCHANGED <<initState, vault, anchorService, rpcMode, anc, anchorStore,
                 verifyResp,
                 db,
                 hasher,
                 listing,
                 http,
                 sent,
                 written>>

StoreOutcomes == {"ok", "fail"}

\* storeCredential: rejects without a builder client or when the SDK write
\* fails (AppError 500); otherwise createStandardData inserts a record with
\* a fresh _id
UploadStore(u, outcome) ==
  /\ up[u].pc = "store"
  /\ initialized
  /\ IF builderClient /\ outcome = "ok"
       THEN /\ vault' = vault \cup {[rid |-> u, proof_hash |-> up[u].hash]}
            /\ up' = [up EXCEPT ![u].pc = "respond", ![u].wrote = TRUE]
       ELSE /\ vault' = vault
            /\ up' = [up EXCEPT ![u] = [IdleUpload EXCEPT !.pc = "done",
                        !.resp = [kind |-> "error", proofHash |-> NoHash,
                                  status |-> "500"]]]
  /\ UNCHANGED <<initState, anchorService, rpcMode, anc, anchorStore,
                 verifyResp,
                 db,
                 hasher,
                 listing,
                 http,
                 sent,
                 written>>

\* variant: the response reports a missing anchor service as a failure
VaultedResponse_needsAnchor(u) ==
  IF anchorService
    THEN [kind |-> "vaulted", proofHash |-> up[u].hash, status |-> "vaulted"]
    ELSE [kind |-> "error", proofHash |-> NoHash, status |-> "500"]

\* the response sent once the write succeeded
VaultedResponse(u) ==
  [kind |-> "vaulted", proofHash |-> up[u].hash, status |-> "vaulted"]

\* after the write: anchorCredential is started without being awaited and
\* the response is sent
UploadRespond(u) ==
  /\ up[u].pc = "respond"
  /\ up' = [up EXCEPT ![u].pc = "done", ![u].resp = VaultedResponse(u)]
  /\ anc' = IF anchorService
              THEN [anc EXCEPT ![u] = [NoAnchor EXCEPT !.pc = "lookup",
                                         !.hash = up[u].hash]]
              ELSE anc
  /\ UNCHANGED <<initState, vault, anchorService, rpcMode, anchorStore,
                 verifyResp,
                 db,
                 hasher,
                 listing,
                 http,
                 sent,
                 written>>

(************************** anchor service *********************************)
\* answers of the RPC endpoint to one send method:
\*   "result" a response without error, "error" a JSON-RPC error response,
\*   "throw" the request rejects (network error, timeout), "empty" a
\*   response with an empty body, "null" a response whose body is null
SendOutcomes ==
  IF rpcMode = "failing" THEN {"error", "throw", "null"}
  ELSE {"result", "error", "throw", "empty", "null"}

\* answers to the four send methods, in order, when no method succeeds
FailingAnswers ==
  { <<"error", "error", "error", "error">>,
    <<"throw", "throw", "throw", "throw">>,
    <<"null", "null", "null", "null">>,
    <<"error", "throw", "null", "throw">>,
    <<"null", "throw", "error", "error">>,
    <<"throw", "error", "throw", "null">> }

\* answers to the four send methods, in order, of any endpoint
AnyAnswers ==
  FailingAnswers \cup
  { <<"result", "result", "result", "result">>,
    <<"error", "error", "result", "error">>,
    <<"throw", "throw", "throw", "result">>,
    <<"empty", "empty", "empty", "empty">>,
    <<"error", "empty", "throw", "throw">>,
    <<"null", "error", "error", "empty">> }

\* answers to one nil_getTransactionReceipt
ReceiptOutcomes == IF rpcMode # "any" THEN {"throw"}
                   ELSE {"noReceipt", "success", "failed", "throw"}

\* getNonce: the account nonce, 0 when the RPC call fails
NonceOutcomes == IF rpcMode = "any" THEN {"0", "1"} ELSE {"0"}

\* createTransaction(...).hash: digest of the unsigned transaction
createTransactionHash(proofHash, nonce) ==
  Sha256("tx:" \o proofHash \o ":" \o nonce)

\* response.data.result of an accepted submission
TxId(a) == "0x" \o ToString(a)

\* variant: the digest is taken of the transaction signature
FallbackTxHash_signature(signedTx) == Sha256(signedTx.signature)

\* the digest both fallback branches of sendTransaction compute:
\* sha256(signedTx.proofHash || signedTx.signature)
FallbackTxHash(signedTx) ==
  IF signedTx.proofHash # "" THEN Sha256(signedTx.proofHash)
  ELSE Sha256(signedTx.signature)

\* variant: the loop has no break
accepted_noBreak(answer) == FALSE

\* response.data && !response.data.error: the answer ends the loop
accepted(answer) == answer = "result"

\* the method loop of sendTransaction: rpc[i] is the answer to methods[i];
\* the loop stops at the first response that has a body and no error, and
\* response is the last response received ("none" when every request
\* rejected)
RECURSIVE methodLoop(_, _, _)
methodLoop(rpc, i, response) ==
  IF i > Len(methods) THEN response
  ELSE IF accepted(rpc[i]) THEN rpc[i]
  ELSE methodLoop(rpc, i + 1, IF rpc[i] = "throw" THEN response ELSE rpc[i])

\* the methods the loop posts, in order
RECURSIVE methodsPosted(_, _)
methodsPosted(rpc, i) ==
  IF i > Len(methods) THEN <<>>
  ELSE <<methods[i]>> \o (IF accepted(rpc[i]) THEN <<>>
                          ELSE methodsPosted(rpc, i + 1))

\* sendTransaction(signedTx) when the RPC endpoint answers rpc
sendTransaction(signedTx, rpc, a) ==
  LET response == methodLoop(rpc, 1, "none")
  IN  IF response = "none" \/ response = "error"
        THEN [txHash |-> FallbackTxHash(signedTx), status |-> "simulated",
              anchorType |-> "proof_hash_verification"]
      ELSE IF response = "null"
        \* response.data.error on a null body throws: the catch block
        THEN [txHash |-> FallbackTxHash(signedTx), status |-> "proof_based",
              anchorType |-> "proof_hash_verification"]
      ELSE IF response = "empty"
        THEN [txHash |-> "undefined", status |-> "pending",
              anchorType |-> "blockchain"]
        ELSE [txHash |-> TxId(a), status |-> "pending",
              anchorType |-> "blockchain"]

\* status of anchorData after submission
AnchorStatusOf(txResult) ==
  IF txResult.anchorType = "proof_hash_verification"
       \/ txResult.status = "simulated" \/ txResult.status = "proof_based"
    THEN "verified" ELSE "pending"

\* anchorService.storeAnchor(proofHash, anchorData)
storeAnchor(proofHash, a) == [anchorStore EXCEPT ![proofHash] = a]

\* number of anchorData objects created so far for proof hash h
Created(h) == Cardinality({b \in U : anc[b].seq > 0 /\ anc[b].hash = h})

\* variant: anchoring goes on whatever the lookup returned
hasCredential_any(credential) == TRUE

\* anchorCredential goes on only with a credential: a rejected lookup
\* rejects the call, null throws 'not found in NillionDB'
hasCredential(credential) == credential.kind = "found"

\* anchorCredential up to the submission: the credential must be found in
\* NillionDB, else the call rejects; getNonce and createTransaction follow
AnchorLookup(a, outcome, nonce) ==
  /\ anc[a].pc = "lookup"
  /\ initialized
  /\ nonce \in NonceOutcomes
  /\ IF hasCredential(getCredentialByProofHash(anc[a].hash, outcome))
       THEN anc' = [anc EXCEPT ![a].pc = "send",
                      ![a].seq = Created(anc[a].hash) + 1,
                      ![a].status = "pending",
                      ![a].tx_hash = createTransactionHash(anc[a].hash, nonce)]
       ELSE anc' = [anc EXCEPT ![a].pc = "rejected"]
  /\ UNCHANGED <<initState, vault, up, anchorService, rpcMode, anchorStore,
                 verifyResp,
                 db,
                 hasher,
                 listing,
                 http,
                 sent,
                 written>>

\* every send method got an error response, a rejection or a null body
AllMethodsFailed(rpc) ==
  \A i \in 1..Len(methods) : rpc[i] \in {"error", "throw", "null"}

\* anchorCredential from the submission on: sendTransaction, the result
\* written to anchorData, the record stored and, for a pending blockchain
\* transaction, waitForConfirmation started
AnchorSend(a, rpc) ==
  /\ anc[a].pc = "send"
  /\ \A i \in 1..Len(methods) : rpc[i] \in SendOutcomes
  /\ LET txResult == sendTransaction([signature |-> anc[a].tx_hash,
                                      proofHash |-> anc[a].hash], rpc, a)
         polls    == txResult.anchorType = "blockchain"
                       /\ txResult.status = "pending"
     IN  /\ anc' = [anc EXCEPT
                      ![a].pc = IF polls THEN "poll" ELSE "done",
                      ![a].rpcFailed = AllMethodsFailed(rpc),
                      ![a].tx_hash = txResult.txHash,
                      ![a].txStatus = txResult.status,
                      ![a].anchor_type = txResult.anchorType,
                      ![a].status = AnchorStatusOf(txResult),
                      ![a].stored = TRUE,
                      ![a].attempt = IF polls THEN 1 ELSE 0,
                      ![a].resultType = txResult.anchorType]
         /\ anchorStore' = storeAnchor(anc[a].hash, a)
  /\ UNCHANGED <<initState, vault, up, anchorService, rpcMode, verifyResp,
                 db,
                 hasher,
                 listing,
                 http,
                 sent,
                 written>>

\* variant: the receipt's status is not looked at
ConfirmedStatus_ignoreStatus(receipt) == "confirmed"

\* status the confirmation callbacks give anchorData: .then with the
\* receipt's status, .catch with 'failed'
ConfirmedStatus(receipt) == IF receipt = "success" THEN "confirmed"
                            ELSE "failed"

\* variant: one attempt more than the budget
moreAttempts_offByOne(attempt) == attempt <= maxAttempts

\* the loop of waitForConfirmation goes on after this attempt
moreAttempts(attempt) == attempt < maxAttempts

\* one iteration of waitForConfirmation and, when it ends the wait, the
\* .then / .catch callback of anchorCredential
AnchorPoll(a, outcome) ==
  /\ anc[a].pc = "poll"
  /\ outcome \in ReceiptOutcomes
  /\ IF outcome \in {"success", "failed"}
       THEN \* receipt with a block number: resolve
            /\ anc' = [anc EXCEPT ![a].pc = "done",
                         ![a].attempt = 0,
                         ![a].receipt = outcome,
                         ![a].status = ConfirmedStatus(outcome),
                         ![a].block_height = "blockNumber"]
            /\ anchorStore' = storeAnchor(anc[a].hash, a)
       ELSE IF moreAttempts(anc[a].attempt)
         THEN \* wait, next attempt
              /\ anc' = [anc EXCEPT ![a].attempt = @ + 1]
              /\ anchorStore' = anchorStore
         ELSE \* the last attempt: rethrow its error, or the timeout error
              /\ anc' = [anc EXCEPT ![a].pc = "done",
                           ![a].attempt = 0,
                           ![a].status = "failed",
                           ![a].confirmationError =
                              IF outcome = "throw" THEN "rpcError"
                              ELSE "timeout"]
              /\ anchorStore' = storeAnchor(anc[a].hash, a)
  /\ UNCHANGED <<initState, vault, up, anchorService, rpcMode, verifyResp,
                 db,
                 hasher,
                 listing,
                 http,
                 sent,
                 written>>

(************************** verify *****************************************)
\* a hash that fails Joi.string().hex().length(64)
Malformed == "xyz"

VerifyInputs == Hashes \cup {NeverIssued, Malformed}

EverStored(h) == \E u \in U : up[u].wrote /\ up[u].hash = h

VerifyResponse(endpoint, h, kind, matches, outcome) ==
  [endpoint |-> endpoint, proofHash |-> h, kind |-> kind,
   proof_hash_matches |-> matches, issued |-> (SucceededWith(h) # {}),
   everStored |-> EverStored(h),
   lookupOk |-> (builderClient /\ outcome = "ok"),
   anchor |-> 0, anchorType |-> "null", anchorStatus |-> "not_anchored",
   blockchain_verified |-> FALSE, latestStored |-> 0,
   status |-> IF kind = "exists"
                THEN getCredentialByProofHash(h, outcome).status ELSE "none"]

\* variant: the test of the lookup result inverted
VerifyProofKind_inverted(credential) ==
  IF credential.kind = "throw" THEN "error"
  ELSE IF credential.kind = "null" THEN "exists" ELSE "not_found"

\* what /verify-proof answers for the result of the lookup: a rejection
\* goes to next(error), null is exists: false
VerifyProofKind(credential) ==
  IF credential.kind = "throw" THEN "error"
  ELSE IF credential.kind = "null" THEN "not_found" ELSE "exists"

\* anchors.length > 0 ? anchors[anchors.length - 1] : null (0)
latestAnchor(anchors) == IF Len(anchors) > 0 THEN anchors[Len(anchors)] ELSE 0

\* blockchainVerification?.confirmed || false: the receipt of the latest
\* anchor's transaction is queried; confirmed is "the receipt has a block
\* number"; a failed query gives confirmed: false; without an anchor there
\* is no query
blockchainVerified(latest, receipt) ==
  latest # 0 /\ receipt \in {"success", "failed"}

\* POST /api/verification/verify-proof; credential.anchors is undefined in
\* the record getCredentialByProofHash returns, so anchors is []
VerifyProof(h, outcome) ==
  /\ initialized \/ h = Malformed
  /\ IF h = Malformed
       THEN verifyResp' = [VerifyResponse("verify-proof", h, "invalid", FALSE,
                              outcome) EXCEPT !.lookupOk = FALSE]
       ELSE LET credential == getCredentialByProofHash(h, outcome)
                latest     == latestAnchor(<<>>)
            IN  verifyResp' =
                  [VerifyResponse("verify-proof", h,
                                  VerifyProofKind(credential),
                                  credential.kind = "found"
                                    /\ credential.proof_hash = h,
                                  outcome)
                   EXCEPT !.blockchain_verified =
                            credential.kind = "found"
                              /\ blockchainVerified(latest, "noReceipt")]
  /\ UNCHANGED <<initState, vault, up, anchorService, rpcMode, anc,
                 anchorStore,
                 db,
                 hasher,
                 listing,
                 http,
                 sent,
                 written>>

\* anchorService.getAnchorByProofHash(proofHash): anchorStore.get(proofHash)
\* or null (0); without an anchor service anchorInfo stays null
getAnchorByProofHash(proofHash) ==
  IF anchorService /\ proofHash \in DOMAIN anchorStore
    THEN anchorStore[proofHash] ELSE 0

\* variant: every anchor is reported as a blockchain anchor
anchorTypeOf_blockchain(anchorInfo) == "blockchain"

\* anchorInfo.anchor_type
anchorTypeOf(anchorInfo) == anc[anchorInfo].anchor_type

\* the most recently created of the AnchorRecords of hash h that were
\* handed to storeAnchor
LatestStored(h) ==
  CHOOSE a \in U :
    /\ anc[a].stored /\ anc[a].hash = h
    /\ \A b \in U : (anc[b].stored /\ anc[b].hash = h) => anc[b].seq <= anc[a].seq

\* the anchor fields of the /verify response
AnchorReport(resp, anchorInfo) ==
  IF anchorInfo = 0 THEN resp
  ELSE [resp EXCEPT !.anchor = anchorInfo,
                    !.anchorType = anchorTypeOf(anchorInfo),
                    !.anchorStatus = anc[anchorInfo].status,
                    !.latestStored = LatestStored(resp.proofHash)]

\* POST /api/credentials/verify: a rejected lookup is caught and answered
\* as 'Credential not found'; a found credential is answered with the
\* entry of anchorStore for the hash
VerifyCredential(h, outcome) ==
  /\ initialized \/ h = Malformed
  /\ IF h = Malformed
       THEN verifyResp' = [VerifyResponse("verify", h, "invalid", FALSE,
                              outcome) EXCEPT !.lookupOk = FALSE]
       ELSE LET credential == getCredentialByProofHash(h, outcome)
            IN  IF credential.kind = "found"
                  THEN verifyResp' =
                         AnchorReport(VerifyResponse("verify", h, "exists",
                                        credential.proof_hash = h, outcome),
                                      getAnchorByProofHash(h))
                  ELSE verifyResp' = VerifyResponse("verify", h, "not_found",
                                        FALSE, outcome)
  /\ UNCHANGED <<initState, vault, up, anchorService, rpcMode, anc,
                 anchorStore,
                 db,
                 hasher,
                 listing,
                 http,
                 sent,
                 written>>

(************************** DELETE /:recordId ******************************)
\* deleteCredential: deleteData with filter {_id: recordId}
DeleteCredential(recordId, outcome) ==
  /\ initState = "ready"
  /\ outcome = "ok"
  /\ vault' = {r \in vault : r.rid # recordId}
  /\ UNCHANGED <<initState, up, anchorService, rpcMode, anc, anchorStore,
                 verifyResp,
                 db,
                 hasher,
                 listing,
                 http,
                 sent,
                 written>>

(************************** GET /list ***************************************)
\* the payloads of the listed records and the proof hash stored with each
StoredPayloads ==
  {[document_content |-> c, proof_hash |-> computeBinaryProofHash(c)] :
     c \in FileContents}

\* storeCredentialReal writes a record: plaintext metadata and the payload
\* under document_content; stored_at is the time of the write
StoreRecord(payload) ==
  /\ initState = "ready"
  /\ Len(listing.dataArray) < MaxStored
  /\ listing' =
       [listing EXCEPT !.dataArray =
          Append(@, [_id |-> Len(@) + 1, proof_hash |-> payload.proof_hash,
                     stored_at |-> Len(@) + 1,
                     document_content |-> payload.document_content])]
  /\ UNCHANGED <<initState, vault, up, anchorService, rpcMode, anc,
                 anchorStore, verifyResp, db, hasher,
                 http,
                 sent,
                 written>>

\* a record written while others are: findData answers with the records of
\* the collection in the order of the node, not of the writes (the record
\* is at position pos), and two writes may fall into one millisecond
StoreRecordAt(payload, pos, stored_at) ==
  LET record == [_id |-> Len(listing.dataArray) + 1,
                 proof_hash |-> payload.proof_hash, stored_at |-> stored_at,
                 document_content |-> payload.document_content]
  IN  /\ initState = "ready"
      /\ Len(listing.dataArray) < MaxStored
      /\ pos \in 1..(Len(listing.dataArray) + 1)
      /\ listing' =
           [listing EXCEPT !.dataArray =
              SubSeq(@, 1, pos - 1) \o <<record>> \o SubSeq(@, pos, Len(@))]
      /\ UNCHANGED <<initState, vault, up, anchorService, rpcMode, anc,
                     anchorStore, verifyResp, db, hasher, http, sent,
                     written>>

\* dataArray.sort((a, b) => dateB - dateA): newest first, records of equal
\* stored_at in their order
RECURSIVE sortByStoredAt(_)
sortByStoredAt(dataArray) ==
  IF dataArray = <<>> THEN <<>>
  ELSE LET i == CHOOSE j \in DOMAIN dataArray :
                  /\ \A k \in DOMAIN dataArray :
                       dataArray[k].stored_at <= dataArray[j].stored_at
                  /\ \A k \in 1..(j - 1) :
                       dataArray[k].stored_at < dataArray[j].stored_at
           rest == [k \in 1..(Len(dataArray) - 1) |->
                      IF k < i THEN dataArray[k] ELSE dataArray[k + 1]]
       IN  <<dataArray[i]>> \o sortByStoredAt(rest)

\* variant: the element at index end is part of the slice
slice_inclusive(dataArray, start, end) ==
  SubSeq(dataArray, start + 1,
         IF end + 1 < Len(dataArray) THEN end + 1 ELSE Len(dataArray))

\* dataArray.slice(offset, offset + limit)
slice(dataArray, start, end) ==
  SubSeq(dataArray, start + 1,
         IF end < Len(dataArray) THEN end ELSE Len(dataArray))

\* the record mapping of getAllCredentials
credentialOf(record) ==
  [id |-> record._id, proof_hash |-> record.proof_hash,
   stored_at |-> record.stored_at, content |-> record.document_content,
   status |-> "vaulted"]

\* getAllCredentials(limit, offset) on the records findData returned
getAllCredentials(dataArray, limit, offset) ==
  LET sorted        == sortByStoredAt(dataArray)
      paginatedData == slice(sorted, offset, offset + limit)
  IN  [kind |-> "list",
       credentials |-> [i \in 1..Len(paginatedData) |->
                          credentialOf(paginatedData[i])],
       total |-> Len(dataArray), limit |-> limit, offset |-> offset,
       hasMore |-> offset + limit < Len(dataArray)]

\* the result of getAllCredentials when findData rejects for its three
\* call signatures, or answers without an array
emptyList(limit, offset) ==
  [kind |-> "list", credentials |-> <<>>, total |-> 0, limit |-> limit,
   offset |-> offset, hasMore |-> FALSE]

\* a client that asks for page after page of limit records, from offset
\* on, as long as hasMore is true: the credentials received, in order
RECURSIVE consecutivePages(_, _, _)
consecutivePages(dataArray, limit, offset) ==
  LET page == getAllCredentials(dataArray, limit, offset)
  IN  IF page.hasMore
        THEN page.credentials \o consecutivePages(dataArray, limit,
                                                   offset + limit)
        ELSE page.credentials

\* GET /list: without a builder client getAllCredentials throws and the
\* request is answered with an error; when findData fails the answer is an
\* empty list
ListCredentials(limit, offset, outcome) ==
  /\ initialized
  /\ listing' =
       [listing EXCEPT !.resp =
          IF ~builderClient THEN [kind |-> "error"]
          ELSE IF outcome = "ok"
            THEN getAllCredentials(listing.dataArray, limit, offset)
            ELSE emptyList(limit, offset),
                       !.findData = IF builderClient THEN outcome ELSE "none"]
  /\ UNCHANGED <<initState, vault, up, anchorService, rpcMode, anc,
                 anchorStore, verifyResp, db, hasher,
                 http,
                 sent,
                 written>>

(************************** hash entry points ******************************)
\* the texts given to the hash functions: the JSON texts of the model and
\* two texts that are not JSON
HashTexts == DOMAIN JsonValueOf \cup {"c2", "{bad"}

\* entry point op was called with the text and answered h: a behaviour
\* holds two calls of one entry point, the first recorded as x, the second
\* as y
Answer(op, text, h) ==
  \/ /\ hasher.op = "none"
     /\ hasher' = [hasher EXCEPT !.op = op, !.x = text, !.hx = h]
  \/ /\ hasher.op = op /\ hasher.hy = "none"
     /\ hasher' = [hasher EXCEPT !.y = text, !.hy = h]

\* node hash.js --json <text>: the proof hash, or exit(1) on an Error
HashJsonCli(text) ==
  /\ LET h == hash_computeJsonProofHash(Str(text))
     IN  Answer("hash.js --json", text,
                IF h = "throw" THEN "error" ELSE h)
  /\ UNCHANGED <<initState, vault, up, anchorService, rpcMode, anc,
                 anchorStore, verifyResp, db,
                 listing,
                 http,
                 sent,
                 written>>

\* node hash.js <file>, the file holding the text
HashFileCli(text) ==
  /\ Answer("hash.js file", text, computeFileProofHash(text))
  /\ UNCHANGED <<initState, vault, up, anchorService, rpcMode, anc,
                 anchorStore, verifyResp, db,
                 listing,
                 http,
                 sent,
                 written>>

\* POST /compute-hash with type 'json': data is the text, or (asObject) the
\* object the text denotes; an Error of computeJsonProofHash is answered 500
ComputeHash(text, asObject) ==
  /\ asObject => JSONparse(text).t = "object"
  /\ LET data == IF asObject THEN JSONparse(text) ELSE Str(text)
         h    == computeJsonProofHash(data)
     IN  Answer(IF asObject THEN "compute-hash object" ELSE "compute-hash",
                text, IF h = "throw" THEN "error" ELSE h)
  /\ UNCHANGED <<initState, vault, up, anchorService, rpcMode, anc,
                 anchorStore, verifyResp, db,
                 listing,
                 http,
                 sent,
                 written>>

\* the hash selection of POST /upload for a request carrying the text as
\* jsonData (kind "json") or as the bytes of the file (kind "file")
UploadHashing(text, kind) ==
  /\ LET h == UploadHash([kind |-> kind, body |-> text,
                          clientProofHash |-> NoHash])
     IN  Answer("upload " \o kind, text,
                IF h = "ValidationError" THEN "error" ELSE h)
  /\ UNCHANGED <<initState, vault, up, anchorService, rpcMode, anc,
                 anchorStore, verifyResp, db,
                 listing,
                 http,
                 sent,
                 written>>

(************************** database-backed build *************************)
\* POST /upload up to the insert into credentials: an existing row with the
\* proof hash is answered at once
DbUploadCreate(u, body) ==
  /\ db.resp[u] = "none" /\ db.cred[u].status = "none"
  /\ LET proofHash == computeBinaryProofHash(body)
     IN  IF \E v \in U : /\ db.cred[v].status # "none"
                          /\ db.cred[v].proof_hash = proofHash
           THEN db' = [db EXCEPT !.resp[u] = "exists"]
           ELSE db' = [db EXCEPT !.cred[u] = [status |-> "uploaded",
                                              proof_hash |-> proofHash]]
  /\ UNCHANGED <<initState, vault, up, anchorService, rpcMode, anc,
                 anchorStore, verifyResp,
                 hasher,
                 listing,
                 http,
                 sent,
                 written>>

\* enqueueAnchorJob: the jobs of the queue afterwards; without a queue the
\* job is skipped and a mock job returned; added: anchorQueue.add resolved
enqueueAnchorJob(jobs, u, added) ==
  IF ~db.anchorQueue THEN jobs
  ELSE IF added THEN jobs \cup {u}
  ELSE jobs

\* enqueueAnchorJob returns a job: always without a queue, else when
\* anchorQueue.add resolved
jobReturned(added) == ~db.anchorQueue \/ added

\* POST /upload from storeCredential to the enqueueing: the row becomes
\* 'vaulted' and an anchor job is enqueued (a rejection of the queue is
\* logged and the handler goes on), or the catch block sets the row to
\* 'failed' and the handler throws AppError 500
DbUploadStore(u, outcome, added) ==
  /\ db.resp[u] = "none" /\ db.cred[u].status = "uploaded"
  /\ IF outcome = "ok"
       THEN db' = [db EXCEPT !.cred[u].status = "vaulted",
                             !.jobs = enqueueAnchorJob(@, u, added),
                             !.accepted = IF jobReturned(added)
                                            THEN @ \cup {u} ELSE @,
                             !.resp[u] = "auditing"]
       ELSE db' = [db EXCEPT !.cred[u].status = "failed",
                             !.resp[u] = "error500"]
  /\ UNCHANGED <<initState, vault, up, anchorService, rpcMode, anc,
                 anchorStore, verifyResp,
                 hasher,
                 listing,
                 http,
                 sent,
                 written>>

\* POST /upload from db.createAuditLog on: the response 'queued for
\* anchoring', or, when the insert rejects, the same catch block: the row
\* is set to 'failed' and the handler throws AppError 500
DbUploadAudit(u, outcome) ==
  /\ db.resp[u] = "auditing"
  /\ IF outcome = "ok"
       THEN db' = [db EXCEPT !.resp[u] = "vaulted"]
       ELSE db' = [db EXCEPT !.cred[u].status = "failed",
                             !.resp[u] = "error500"]
  /\ UNCHANGED <<initState, vault, up, anchorService, rpcMode, anc,
                 anchorStore, verifyResp,
                 hasher,
                 listing,
                 http,
                 sent,
                 written>>

\* the worker takes a job: anchorCredential up to db.createAnchor
DbAnchorCreate(u, nonce) ==
  /\ u \in db.jobs
  /\ Len(db.anchors) < MaxAnchorRows
  /\ db' = [db EXCEPT
              !.jobs = @ \ {u},
              !.anchors = Append(@,
                 [credential_id |-> u, status |-> "pending", pc |-> "send",
                  tx_hash |-> createTransactionHash(db.cred[u].proof_hash,
                                                    nonce)])]
  /\ UNCHANGED <<initState, vault, up, anchorService, rpcMode, anc,
                 anchorStore, verifyResp,
                 hasher,
                 listing,
                 http,
                 sent,
                 written>>

\* sendTransaction of this build: one method, an error response or a
\* rejected request throws and anchorCredential rethrows, leaving the row
\* as created; otherwise the row gets the transaction id and the wait starts
DbAnchorSend(i, outcome) ==
  /\ i \in 1..Len(db.anchors)
  /\ db.anchors[i].pc = "send"
  /\ IF outcome = "result"
       THEN db' = [db EXCEPT !.anchors[i].tx_hash = TxId(i),
                             !.anchors[i].pc = "poll"]
       ELSE db' = [db EXCEPT !.anchors[i].pc = "thrown"]
  /\ UNCHANGED <<initState, vault, up, anchorService, rpcMode, anc,
                 anchorStore, verifyResp,
                 hasher,
                 listing,
                 http,
                 sent,
                 written>>

\* waitForConfirmation settles and its callback updates the row and the
\* credential: receipt "success" / "failed", or "none" when the attempts
\* are used up
DbAnchorConfirm(i, receipt) ==
  /\ i \in 1..Len(db.anchors)
  /\ db.anchors[i].pc = "poll"
  /\ db' = [db EXCEPT
              !.anchors[i].pc = "done",
              !.anchors[i].status = ConfirmedStatus(receipt),
              !.cred[db.anchors[i].credential_id].status =
                 IF receipt = "success" THEN "anchored" ELSE "failed"]
  /\ UNCHANGED <<initState, vault, up, anchorService, rpcMode, anc,
                 anchorStore, verifyResp,
                 hasher,
                 listing,
                 http,
                 sent,
                 written>>

\* the methods of the database service
DatabaseService ==
  {"createUser", "getUserById", "getUserByEmail", "createCredential",
   "updateCredential", "getCredentialById", "getCredentialByProofHash",
   "getUserCredentials", "createAnchor", "updateAnchor", "getAnchorByTxHash",
   "getPendingAnchors", "createAuditLog", "getAuditLogs"}

\* POST /retry: db.getAnchorById is called first; a call of a method the
\* service does not have throws a TypeError, which the error handler answers
\* with 500. Past it: 404 for an unknown anchor, 400 unless the row is
\* 'failed', otherwise a new anchor job for the credential of the row
DbRetry(anchorId) ==
  /\ db' =
       IF "getAnchorById" \notin DatabaseService
         THEN [db EXCEPT !.retry = [anchorId |-> anchorId,
                                    resp |-> "error500"]]
       ELSE IF anchorId \notin 1..Len(db.anchors)
         THEN [db EXCEPT !.retry = [anchorId |-> anchorId,
                                    resp |-> "error404"]]
       ELSE IF db.anchors[anchorId].status # "failed"
         THEN [db EXCEPT !.retry = [anchorId |-> anchorId,
                                    resp |-> "error400"]]
       ELSE [db EXCEPT !.jobs = enqueueAnchorJob(
                                  @, db.anchors[anchorId].credential_id, TRUE),
                       !.accepted = @ \cup {db.anchors[anchorId].credential_id},
                       !.audit = @ \cup {anchorId},
                       !.retry = [anchorId |-> anchorId,
                                  resp |-> "enqueued"]]
  /\ UNCHANGED <<initState, vault, up, anchorService, rpcMode, anc,
                 anchorStore, verifyResp,
                 hasher,
                 listing,
                 http,
                 sent,
                 written>>

\* credential.anchors: the rows of the anchors table of one credential
\* (row numbers, in insertion order)
RECURSIVE anchorsOf(_, _)
anchorsOf(u, n) ==
  IF n = 0 THEN <<>>
  ELSE IF db.anchors[n].credential_id = u
         THEN Append(anchorsOf(u, n - 1), n)
         ELSE anchorsOf(u, n - 1)

\* what nil_getTransactionReceipt can answer for the transaction of a row:
\* a receipt only once the transaction was submitted, and the receipt that
\* confirmed the row ever after
DbReceipts(latest) ==
  IF latest = 0 THEN {"noReceipt"}
  ELSE IF db.anchors[latest].pc \in {"send", "thrown"}
    THEN {"noReceipt", "throw"}
  ELSE IF db.anchors[latest].status = "confirmed"
    THEN {"success", "throw"}
    ELSE {"noReceipt", "success", "failed", "throw"}

\* POST /verify-proof of the database-backed build
DbVerifyProof(h, receipt) ==
  /\ \A u \in U :
       (db.cred[u].status # "none" /\ db.cred[u].proof_hash = h)
         => receipt \in DbReceipts(latestAnchor(anchorsOf(u, Len(db.anchors))))
  /\ IF \E u \in U : db.cred[u].status # "none" /\ db.cred[u].proof_hash = h
       THEN LET u      == CHOOSE v \in U : /\ db.cred[v].status # "none"
                                           /\ db.cred[v].proof_hash = h
                latest == latestAnchor(anchorsOf(u, Len(db.anchors)))
            IN  verifyResp' =
                  [NoVerify EXCEPT
                     !.endpoint = "db-verify-proof", !.proofHash = h,
                     !.kind = "exists", !.proof_hash_matches = TRUE,
                     !.status = db.cred[u].status,
                     !.anchor = latest,
                     !.anchorType = IF latest = 0 THEN "null"
                                    ELSE "blockchain",
                     !.anchorStatus = IF latest = 0 THEN "not_anchored"
                                      ELSE db.anchors[latest].status,
                     !.blockchain_verified =
                        blockchainVerified(latest, receipt)]
       ELSE verifyResp' = [NoVerify EXCEPT !.endpoint = "db-verify-proof",
                                           !.proofHash = h,
                                           !.kind = "not_found"]
  /\ UNCHANGED <<initState, vault, up, anchorService, rpcMode, anc,
                 anchorStore, db,
                 hasher,
                 listing,
                 http,
                 sent,
                 written>>

(************************** specifications *********************************)
\* the routes and the storage client, anchor service not configured
InitVault == Init /\ anchorService = FALSE /\ rpcMode = "any"

NextVault ==
  \/ InitializeClient
  \/ \E u \in U, req \in Requests : UploadReceive(u, req)
  \/ \E u \in U, o \in LookupOutcomes : UploadLookup(u, o)
  \/ \E u \in U, o \in StoreOutcomes : UploadStore(u, o)
  \/ \E u \in U : UploadRespond(u)
  \/ \E h \in VerifyInputs, o \in LookupOutcomes : VerifyProof(h, o)
  \/ \E r \in U, o \in StoreOutcomes : DeleteCredential(r, o)

SpecVault == InitVault /\ [][NextVault]_vars

\* the same with both verify routes
NextVerify ==
  \/ NextVault
  \/ \E h \in VerifyInputs, o \in LookupOutcomes : VerifyCredential(h, o)

SpecVerify == InitVault /\ [][NextVerify]_vars

\* upload and anchoring against an RPC endpoint that never accepts a
\* submission
InitRpcFailing == Init /\ rpcMode = "failing"

NextRpcFailing ==
  \/ InitializeClient
  \/ \E u \in U, req \in Requests : UploadReceive(u, req)
  \/ \E u \in U, o \in LookupOutcomes : UploadLookup(u, o)
  \/ \E u \in U, o \in StoreOutcomes : UploadStore(u, o)
  \/ \E u \in U : UploadRespond(u)
  \/ \E a \in U, o \in LookupOutcomes, n \in {"0", "1"} : AnchorLookup(a, o, n)
  \/ \E a \in U, rpc \in FailingAnswers : AnchorSend(a, rpc)
  \/ \E r \in U, o \in StoreOutcomes : DeleteCredential(r, o)

SpecRpcFailing == InitRpcFailing /\ [][NextRpcFailing]_vars

\* upload and anchoring against an RPC endpoint that may answer anything
InitAnchor == Init /\ rpcMode = "any"

NextAnchor ==
  \/ InitializeClient
  \/ \E u \in PU, req \in Requests : UploadReceive(u, req)
  \/ \E u \in PU, o \in LookupOutcomes : UploadLookup(u, o)
  \/ \E u \in PU, o \in StoreOutcomes : UploadStore(u, o)
  \/ \E u \in PU : UploadRespond(u)
  \/ \E a \in PU, o \in LookupOutcomes, n \in {"0", "1"} : AnchorLookup(a, o, n)
  \/ \E a \in PU, rpc \in AnyAnswers : AnchorSend(a, rpc)
  \/ \E a \in PU, o \in {"noReceipt", "success", "failed", "throw"} :
        AnchorPoll(a, o)
  \/ \E r \in PU, o \in StoreOutcomes : DeleteCredential(r, o)

SpecAnchor == InitAnchor /\ [][NextAnchor]_vars

\* upload, anchoring and both verify routes, the RPC endpoint answering
\* every receipt query with a receipt
InitReport == Init /\ rpcMode = "any" /\ anchorService = TRUE

NextReport ==
  \/ InitializeClient
  \/ \E u \in PU, req \in Requests : UploadReceive(u, req)
  \/ \E u \in PU, o \in LookupOutcomes : UploadLookup(u, o)
  \/ \E u \in PU, o \in StoreOutcomes : UploadStore(u, o)
  \/ \E u \in PU : UploadRespond(u)
  \/ \E a \in PU, o \in LookupOutcomes, n \in {"0", "1"} : AnchorLookup(a, o, n)
  \/ \E a \in PU, rpc \in AnyAnswers : AnchorSend(a, rpc)
  \/ \E a \in PU, o \in {"success", "failed"} : AnchorPoll(a, o)
  \/ \E h \in Hashes, o \in LookupOutcomes : VerifyProof(h, o)
  \/ \E h \in Hashes, o \in LookupOutcomes : VerifyCredential(h, o)
  \/ \E r \in PU, o \in StoreOutcomes : DeleteCredential(r, o)

SpecReport == InitReport /\ [][NextReport]_vars

\* repeated anchoring of one proof hash: NillionDB answers every call, the
\* RPC endpoint answers every receipt query with a receipt
FileRequests == {r \in Requests : r.kind = "file" /\ r.clientProofHash = NoHash}

NextReanchor ==
  \/ InitializeClient
  \/ \E u \in U, req \in FileRequests : UploadReceive(u, req)
  \/ \E u \in U : UploadLookup(u, "ok")
  \/ \E u \in U : UploadStore(u, "ok")
  \/ \E u \in U : UploadRespond(u)
  \/ \E a \in U, n \in {"0", "1"} : AnchorLookup(a, "ok", n)
  \/ \E a \in U, rpc \in AnyAnswers : AnchorSend(a, rpc)
  \/ \E a \in U, o \in {"success", "failed"} : AnchorPoll(a, o)
  \/ \E h \in Hashes : VerifyCredential(h, "ok")
  \/ \E r \in U : DeleteCredential(r, "ok")

SpecReanchor == InitReport /\ [][NextReanchor]_vars

\* the database-backed build: upload, anchor jobs and /verify-proof
\* with the queue as the constructor leaves it (anchorQueue null) and with
\* a connected queue whose worker runs
InitDbBuild ==
  /\ db \in {InitDb, [InitDb EXCEPT !.anchorQueue = TRUE]}
  /\ listing = NoListing
  /\ http = NoHttp
  /\ sent = NoSend
  /\ written = NoStore
  /\ hasher = NoHasher
  /\ initState = "pending"
  /\ vault = {}
  /\ up = [u \in U |-> IdleUpload]
  /\ anchorService = TRUE
  /\ rpcMode = "any"
  /\ anc = [a \in U |-> NoAnchor]
  /\ anchorStore = [h \in Hashes |-> 0]
  /\ verifyResp = NoVerify

NextDb ==
  \/ \E u \in U, body \in FileContents : DbUploadCreate(u, body)
  \/ \E u \in U, o \in StoreOutcomes, added \in BOOLEAN :
        DbUploadStore(u, o, added)
  \/ \E u \in U, o \in StoreOutcomes : DbUploadAudit(u, o)
  \/ \E u \in U, n \in {"0", "1"} : DbAnchorCreate(u, n)
  \/ \E i \in 1..MaxAnchorRows, o \in {"result", "error", "throw"} :
        DbAnchorSend(i, o)
  \/ \E i \in 1..MaxAnchorRows, r \in {"success", "failed", "none"} :
        DbAnchorConfirm(i, r)
  \/ \E h \in Hashes, r \in {"noReceipt", "success", "failed", "throw"} :
        DbVerifyProof(h, r)
  \/ \E i \in 1..MaxAnchorRows : DbRetry(i)

SpecDb == InitDbBuild /\ [][NextDb]_vars

(************************** properties *************************************)
\* u arrived after an upload of the same content had succeeded, and that
\* upload's record is still stored
SecondUpload(u) ==
  \E v \in up[u].prior : [rid |-> v, proof_hash |-> up[u].hash] \in vault

\* C1: an upload of content whose earlier upload succeeded (record still
\* stored) issues no storage write and, once answered, returns the same
\* proof hash with the existing record's status.
C1_IdempotentUpload ==
  \A u \in U :
    SecondUpload(u) =>
      /\ ~up[u].wrote
      /\ (up[u].pc = "done" /\ up[u].resp.kind # "error") =>
            up[u].resp = [kind |-> "exists", proofHash |-> up[u].hash,
                          status |-> "vaulted"]

\* C2: whatever the interleaving of uploads whose duplicate checks were
\* answered by the store, at most one record per proof hash is stored.
C2_OneRecordPerHash ==
  \A u, v \in U :
    ( /\ u # v
      /\ up[u].hash = up[v].hash
      /\ up[u].checked = "answered" /\ up[v].checked = "answered"
      /\ [rid |-> u, proof_hash |-> up[u].hash] \in vault )
    => [rid |-> v, proof_hash |-> up[v].hash] \notin vault

C4_NegativeLookup ==
  ( /\ verifyResp.endpoint # "none"
    /\ verifyResp.proofHash # Malformed
    /\ ~verifyResp.everStored )
  => verifyResp.kind = "not_found"

\* the AnchorRecord stored for hash h is a verified fallback anchor
FallbackAnchored(h) ==
  /\ anchorStore[h] # 0
  /\ anc[anchorStore[h]].anchor_type = "proof_hash_verification"
  /\ anc[anchorStore[h]].status = "verified"

\* C5: with an RPC endpoint that always fails, an upload whose store
\* succeeded is answered 'vaulted', and once its anchoring has ended the
\* AnchorRecord of its proof hash exists, of kind proof_hash_verification
\* and status verified.
C5_FallbackSettles ==
  \A u \in U :
    (rpcMode = "failing" /\ up[u].wrote /\ up[u].pc = "done") =>
      /\ up[u].resp.kind = "vaulted"
      /\ anc[u].pc \in {"done", "rejected"} => FallbackAnchored(up[u].hash)

\* the response of an upload whose write succeeded
C6_Answered ==
  \A u \in U :
    up[u].wrote =>
      \/ up[u].pc = "respond" /\ anc[u].pc = "none"
      \/ up[u].pc = "done" /\ up[u].resp = [kind |-> "vaulted",
                                             proofHash |-> up[u].hash,
                                             status |-> "vaulted"]

\* the response is sent in the step that starts the anchoring, and no
\* later step changes it
C6_Step ==
  \A u \in U :
    /\ (up[u].pc = "respond" /\ up'[u].pc = "done")
          => anc'[u].pc \in {"none", "lookup"}
    /\ up[u].pc = "done" => up'[u] = up[u]

\* C6: once the storage write succeeded the upload is answered with
\* success and status vaulted before any anchoring step has run, and no
\* anchoring outcome (RPC error, RPC unreachable, anchorCredential
\* rejecting, no anchor service) changes that response.
C6_AnchoringNeverAffectsResponse == []C6_Answered /\ [][C6_Step]_vars

C6_Witness ==
  \E u, v \in U :
    /\ up[u].pc = "done" /\ up[u].resp.kind = "vaulted"
    /\ anc[u].pc = "rejected"
    /\ up[v].pc = "done" /\ up[v].resp.kind = "vaulted"
    /\ anc[v].pc = "done" /\ anc[v].txStatus = "simulated"

\* C7: every anchorCredential invocation that has ended left a stored
\* AnchorRecord in a terminal status.
C7_EveryAnchoringSettles ==
  \A a \in U :
    anc[a].pc \in {"done", "rejected"} =>
      /\ anc[a].stored
      /\ anc[a].status \in {"confirmed", "failed", "verified"}

\* C8 (as claimed): at most maxAttempts receipt queries are issued, and a
\* wait that ends without a confirming receipt fails with the timeout
\* error and leaves the AnchorRecord failed.
C8_ExhaustionIsTimeout ==
  \A a \in U :
    /\ anc[a].attempt <= maxAttempts
    /\ (anc[a].pc = "done" /\ anc[a].anchor_type = "blockchain"
          /\ anc[a].receipt = "none")
        => (anc[a].status = "failed" /\ anc[a].confirmationError = "timeout")

C8_Bounded ==
  \A a \in U :
    /\ anc[a].attempt <= maxAttempts
    /\ anc[a].pc = "poll" => anc[a].attempt >= 1
    /\ (anc[a].pc = "done" /\ anc[a].anchor_type = "blockchain"
          /\ anc[a].receipt = "none")
        => /\ anc[a].status = "failed"
           /\ anc[a].confirmationError \in {"timeout", "rpcError"}

\* every query uses up one attempt; the wait ends without a receipt only
\* at the last attempt; a finished invocation does nothing more
C8_Step ==
  \A a \in U :
    /\ (anc[a].pc = "poll" /\ anc'[a] # anc[a]) =>
          \/ anc'[a].pc = "poll" /\ anc'[a].attempt = anc[a].attempt + 1
          \/ anc'[a].pc = "done" /\ anc'[a].receipt # "none"
          \/ anc'[a].pc = "done" /\ anc[a].attempt = maxAttempts
    /\ anc[a].pc = "done" => anc'[a] = anc[a]

\* C8 (amended): the wait for one transaction issues at most maxAttempts
\* receipt queries; when the last of them brings no confirming receipt the
\* wait fails - with the timeout error, or with the error of the last
\* query when that query itself failed - the AnchorRecord becomes failed,
\* and no further query is issued.
C8_BoundedPolling == []C8_Bounded /\ [][C8_Step]_vars

C8_Witness ==
  \E a \in U : /\ anc[a].pc = "done" /\ anc[a].status = "failed"
               /\ anc[a].confirmationError = "timeout"

\* C9 (as claimed): the status of an AnchorRecord changes only from
\* pending to confirmed, on a receipt reporting success, or from pending to
\* failed, on a receipt reporting failure or when the attempts are used up.
C9_OnlyConfirmedOrFailedStep ==
  \A a \in U :
    (anc[a].status # "none" /\ anc'[a].status # anc[a].status) =>
      /\ anc[a].status = "pending"
      /\ \/ anc'[a].status = "confirmed" /\ anc'[a].receipt = "success"
         \/ anc'[a].status = "failed" /\ anc'[a].receipt = "failed"
         \/ anc'[a].status = "failed" /\ anc'[a].receipt = "none"
            /\ anc[a].attempt = maxAttempts

C9_OnlyConfirmedOrFailed == [][C9_OnlyConfirmedOrFailedStep]_vars

C9_Step ==
  \A a \in U :
    (anc[a].status # "none" /\ anc'[a].status # anc[a].status) =>
      /\ anc[a].status = "pending"
      /\ \/ /\ anc'[a].status = "confirmed" /\ anc'[a].receipt = "success"
            /\ anc'[a].block_height # "none" /\ anc[a].stored
         \/ /\ anc'[a].status = "failed" /\ anc'[a].receipt = "failed"
            /\ anc[a].stored
         \/ /\ anc'[a].status = "failed" /\ anc'[a].receipt = "none"
            /\ anc[a].attempt = maxAttempts /\ anc[a].stored
         \/ /\ anc'[a].status = "verified" /\ ~anc[a].stored
            /\ anc'[a].anchor_type = "proof_hash_verification"

\* C9 (amended): the status of one AnchorRecord changes only from pending:
\* to verified when the submission falls back, before the record is stored;
\* to confirmed on a receipt that carries a block number and reports
\* success; to failed on a receipt reporting failure or when the attempts
\* are used up. A record that is confirmed, failed or verified keeps its
\* status.
C9_AnchorStateMachine == [][C9_Step]_vars

C9_Witness ==
  \E a \in U : /\ anc[a].stored /\ anc[a].status = "confirmed"
               /\ anc[a].receipt = "success"

\* C10: an AnchorRecord whose submission failed for every RPC method is
\* stored as verified, of kind proof_hash_verification, with the digest of
\* its proof hash as identifier; no record is in the store before that;
\* two such records for one proof hash carry the same identifier.
C10_FallbackOnRpcFailure ==
  /\ \A a \in U :
       /\ (anc[a].stored /\ anc[a].rpcFailed) =>
             /\ anc[a].status = "verified"
             /\ anc[a].anchor_type = "proof_hash_verification"
             /\ anc[a].tx_hash = Sha256(anc[a].hash)
       /\ (\E h \in Hashes : anchorStore[h] = a) => anc[a].stored
  /\ \A a, b \in U :
       ( /\ anc[a].stored /\ anc[a].rpcFailed
         /\ anc[b].stored /\ anc[b].rpcFailed
         /\ anc[a].hash = anc[b].hash )
       => anc[a].tx_hash = anc[b].tx_hash

C10_Witness ==
  \E a, b \in U :
    /\ a # b /\ anc[a].hash = anc[b].hash
    /\ anc[a].stored /\ anc[a].txStatus = "simulated"
    /\ anc[b].stored /\ anc[b].txStatus = "proof_based"
    /\ anc[a].tx_hash = anc[b].tx_hash

\* C11: a response that reports an anchor - the /verify response and the
\* result of anchorCredential - carries the kind of the AnchorRecord it
\* reports, blockchain or proof_hash_verification.
C11_AnchorKindSurfaced ==
  /\ verifyResp.anchor # 0 =>
       /\ verifyResp.anchorType \in {"blockchain", "proof_hash_verification"}
       /\ verifyResp.anchorType = anc[verifyResp.anchor].anchor_type
  /\ \A a \in U :
       anc[a].resultType # "none" =>
         /\ anc[a].resultType \in {"blockchain", "proof_hash_verification"}
         /\ anc[a].resultType = anc[a].anchor_type

C11_Witness ==
  /\ verifyResp.endpoint = "verify" /\ verifyResp.anchor # 0
  /\ verifyResp.anchorType = "proof_hash_verification"
  /\ anc[verifyResp.anchor].resultType = "proof_hash_verification"

NextList ==
  \/ InitializeClient
  \/ \E payload \in StoredPayloads : StoreRecord(payload)
  \/ \E limit \in {1, 50}, offset \in {0, 1}, o \in StoreOutcomes :
        ListCredentials(limit, offset, o)

InitList == Init /\ rpcMode = "any" /\ anchorService = TRUE

SpecList == InitList /\ [][NextList]_vars

\* the hash functions applied to texts
InitHash == Init /\ rpcMode = "any" /\ anchorService = TRUE

NextHash ==
  \/ \E text \in HashTexts : HashJsonCli(text)
  \/ \E text \in HashTexts : HashFileCli(text)
  \/ \E text \in HashTexts, asObject \in BOOLEAN :
        ComputeHash(text, asObject)
  \/ \E text \in HashTexts, kind \in {"json", "file"} :
        UploadHashing(text, kind)

SpecHash == InitHash /\ [][NextHash]_vars

\* a well-formed hash that differs from h in letter case only
CaseVariant(h) == toLowerCase(h)

\* uploads of files over a healthy or failing storage client, and both
\* verify routes asked for the stored hashes, their case variants, a hash
\* never issued and a malformed one
NextMatch ==
  \/ InitializeClient
  \/ \E u \in U, req \in FileRequests : UploadReceive(u, req)
  \/ \E u \in U, o \in LookupOutcomes : UploadLookup(u, o)
  \/ \E u \in U, o \in StoreOutcomes : UploadStore(u, o)
  \/ \E u \in U : UploadRespond(u)
  \/ \E h \in VerifyInputs \cup {CaseVariant(g) : g \in Hashes},
        o \in LookupOutcomes : VerifyProof(h, o)
  \/ \E h \in VerifyInputs \cup {CaseVariant(g) : g \in Hashes},
        o \in LookupOutcomes : VerifyCredential(h, o)

SpecMatch == InitVault /\ [][NextMatch]_vars

(************************** request level ***********************************)
\* what the client sends along with the content of an upload: file.size,
\* the bytes of the file name before its last '.' (stem: of
\* file.originalname, or of title for jsonData) and from it on (ext), and
\* the bytes of file.mimetype (the mimetypes of the model are neither JSON
\* nor text); SmallFile is a small file with a short name and mimetype
SmallFile == [size |-> 1, stem |-> 8, ext |-> 4, mime |-> 15]

\* attributes at and around the limits that differ from SmallFile in one
\* member
FileAttributes ==
  {f \in [size : {1, fileSize, fileSize + 1},
          stem : {8, maxFieldBytes - 5, maxFieldBytes - 4, maxFieldBytes - 3},
          ext  : {4},
          mime : {15, maxFieldBytes, maxFieldBytes + 1}] :
     Cardinality({m \in {"size", "stem", "mime"} : f[m] # SmallFile[m]}) <= 1}

\* error texts of the storage SDK
CollaboratorDetails == {"connect ECONNREFUSED 10.0.0.7:443",
                        "401 invalid token eyJhbGciOi"}

\* bytes of fileName and fileType as the handler passes them on:
\* `${title}.json` and 'application/json' for jsonData, originalname and
\* the detected mimetype for a file
fileNameBytes(req, file) ==
  IF req.kind = "json" THEN [stem |-> file.stem, ext |-> 5, width |-> 1]
  ELSE [stem |-> file.stem, ext |-> file.ext, width |-> 1]

fileTypeBytes(req, file) == IF req.kind = "json" THEN 16 ELSE file.mime

Min(a, b) == IF a < b THEN a ELSE b

\* Buffer.from(value, 'utf8').length of a string of chars characters that
\* take width bytes each
encodedSize(chars, width) == chars * width

\* characters of file_name after the truncation: the part before the last
\* dot cut to 3500 characters and the extension, or, without an extension,
\* the name cut to 3500 characters
truncated(name) ==
  IF name.ext > 0 /\ name.stem > 0
    THEN Min(name.stem, keptNameChars) + name.ext
    ELSE Min(name.stem + name.ext, keptNameChars)

\* plaintextFields after the first pass: file_name truncated when its
\* encoding exceeds the limit (stem, ext: its characters before the last
\* dot and from it on), the encoded sizes of file_name and file_type
plaintextFields(name, type) ==
  LET over == encodedSize(name.stem + name.ext, name.width) > maxFieldBytes
      cut  == over /\ name.ext > 0 /\ name.stem > 0
      kept == IF over THEN truncated(name) ELSE name.stem + name.ext
  IN  [stem |-> IF cut THEN kept - name.ext
                ELSE IF name.ext = 0 THEN kept ELSE name.stem,
       ext  |-> IF name.stem = 0 THEN kept ELSE name.ext,
       file_name |-> encodedSize(kept, name.width),
       file_type |-> type]

\* variant: the sizes are not checked again after the truncation
fieldSizeError_firstPass(name, type) ==
  IF type > maxFieldBytes
    THEN "Plaintext field 'file_type' is too large (" \o ToString(type)
           \o " bytes when encoded). Maximum is 4096 bytes."
    ELSE ""

\* the two passes over plaintextFields: "" when every field fits, else the
\* message of the Error thrown (without its preview of the value);
\* credential_id, proof_hash, size_bytes and stored_at are short
fieldSizeError(name, type) ==
  LET file_name == plaintextFields(name, type).file_name
  IN  IF type > maxFieldBytes
        THEN "Plaintext field 'file_type' is too large (" \o ToString(type)
               \o " bytes when encoded). Maximum is 4096 bytes."
      ELSE IF file_name > maxFieldBytes
        THEN "Plaintext field 'file_name' is too large ("
               \o ToString(file_name) \o " bytes). Maximum is 4096 bytes."
      ELSE ""

collectionId == "3689f760-a7ea-4acb-813a-4e43495180d9"

\* variant: the lookup also writes the query to the collection
lookupCalls_recording(outcome) ==
  IF ~builderClient THEN <<>>
  ELSE <<"refreshRootToken", "findData", "createStandardData">>

\* SDK calls of one getCredentialByProofHash, in order
lookupCalls(outcome) ==
  IF ~builderClient THEN <<>>
  ELSE IF outcome = "refreshFail" THEN <<"refreshRootToken">>
  ELSE IF outcome = "findFail"
    THEN <<"refreshRootToken", "findData", "findData">>
    ELSE <<"refreshRootToken", "findData">>

\* storeCredentialReal: the SDK calls made, in order, and "" or the message
\* of the Error thrown; collection: "exists", "created" (readCollection
\* rejected, createCollection succeeded) or "createFail"; write: the
\* outcome of createStandardData; detail: the text of the SDK's error
storeCredentialReal(name, type, collection, write, detail) ==
  LET read == IF collection = "exists" THEN <<"readCollection">>
              ELSE <<"readCollection", "createCollection">>
  IN  IF collection = "createFail"
        THEN [calls |-> read, record |-> NoRecord,
              error |-> "NillionDB storage failed: Failed to create "
                          \o "NillionDB collection: " \o detail
                          \o ". Collection ID: " \o collectionId
                          \o ". Check collection schema and NillionDB "
                          \o "configuration."]
      ELSE IF fieldSizeError(name, type) # ""
        THEN [calls |-> read, record |-> NoRecord,
              error |-> "NillionDB storage failed: "
                          \o fieldSizeError(name, type)]
      ELSE IF write = "fail"
        THEN [calls |-> read \o <<"createStandardData">>,
              record |-> plaintextFields(name, type),
              error |-> "NillionDB storage failed: NillionDB storage "
                          \o "failed: " \o detail]
        ELSE [calls |-> read \o <<"createStandardData">>,
              record |-> plaintextFields(name, type), error |-> ""]

\* storeCredential: rejects without a builder client
storeCredential(name, type, collection, write, detail) ==
  IF ~builderClient
    THEN [calls |-> <<>>, record |-> NoRecord,
          error |-> "Nillion builder client not available"]
    ELSE storeCredentialReal(name, type, collection, write, detail)

\* nothing thrown
NoError == [name |-> "none", message |-> "", statusCode |-> 0, code |-> "",
            details |-> ""]

\* variant: clientProofHash is not compared with the computed hash
uploadValidation_unchecked(req) ==
  IF req.kind = "empty"
    THEN ValidationError("Either file or jsonData is required", "")
  ELSE IF UploadHash(req) = "ValidationError"
    THEN ValidationError("Invalid JSON data", "")
    ELSE NoError

\* the ValidationError the handler throws before its first await
uploadValidation(req) ==
  IF req.kind = "empty"
    THEN ValidationError("Either file or jsonData is required", "")
  ELSE IF UploadHash(req) = "ValidationError"
    THEN ValidationError("Invalid JSON data", "")
  ELSE IF req.clientProofHash # NoHash /\ req.clientProofHash # UploadHash(req)
    THEN ValidationError("Client proof hash does not match server "
                           \o "computation", "")
    ELSE NoError

\* record ids not in use
FreeIds == {u \in U : \A r \in vault : r.rid # u}

\* POST /api/credentials/upload, one request from upload.single('file') to
\* the response: multer, the handler with its duplicate lookup, the store
\* and the start of anchoring, and errorHandler for what is thrown
HttpUpload(req, file, lookup, collection, write, detail, isDevelopment) ==
  LET tooLarge == req.kind = "file" /\ file.size > fileSize
      invalid  == uploadValidation(req)
      proofHash == UploadHash(req)
      existing == getCredentialByProofHash(proofHash, lookup)
      stored   == storeCredential(fileNameBytes(req, file),
                                  fileTypeBytes(req, file),
                                  collection, write, detail)
      rid      == CHOOSE u \in FreeIds : \A v \in FreeIds : u <= v
      asked    == [kind |-> req.kind, body |-> req.body,
                   clientProofHash |-> req.clientProofHash, file |-> file]
      early    == tooLarge \/ invalid # NoError
  IN  /\ FreeIds # {}
      /\ early \/ initialized
      /\ IF tooLarge
           THEN /\ http' = [route |-> "upload", req |-> asked, calls |-> <<>>,
                            res |-> errorHandler(MulterError("LIMIT_FILE_SIZE"),
                                                 isDevelopment)]
                /\ UNCHANGED <<vault, anc>>
         ELSE IF invalid # NoError
           THEN /\ http' = [route |-> "upload", req |-> asked, calls |-> <<>>,
                            res |-> errorHandler(invalid, isDevelopment)]
                /\ UNCHANGED <<vault, anc>>
         ELSE IF existing.kind = "found"
           THEN /\ http' = [route |-> "upload", req |-> asked,
                            calls |-> lookupCalls(lookup),
                            res |-> Success("Credential already exists",
                                            existing.status)]
                /\ UNCHANGED <<vault, anc>>
         ELSE IF stored.error # ""
           THEN /\ http' = [route |-> "upload", req |-> asked,
                            calls |-> lookupCalls(lookup) \o stored.calls,
                            res |-> errorHandler(
                                      AppError("Failed to store credential "
                                                 \o "in vault: "
                                                 \o stored.error, 500),
                                      isDevelopment)]
                /\ UNCHANGED <<vault, anc>>
           ELSE /\ vault' = vault \cup {[rid |-> rid, proof_hash |-> proofHash]}
                /\ anc' = IF anchorService
                            THEN [anc EXCEPT ![rid] =
                                    [NoAnchor EXCEPT !.pc = "lookup",
                                                     !.hash = proofHash]]
                            ELSE anc
                /\ http' = [route |-> "upload", req |-> asked,
                            calls |-> lookupCalls(lookup) \o stored.calls
                                        \o IF anchorService
                                             THEN <<"anchorCredential">>
                                             ELSE <<>>,
                            res |-> Success("Credential uploaded and stored "
                                              \o "in NillionDB", "vaulted")]
      /\ UNCHANGED <<initState, up, anchorService, rpcMode, anchorStore,
                     verifyResp, db, hasher, listing,
                 sent,
                 written>>

\* the details of the Joi error for a proofHash that is not hexadecimal
joiDetails(h) == "\"proofHash\" must only contain hexadecimal characters"

\* what getCredentialByProofHash throws: without a builder client its own
\* Error, else the SDK's rejection itself
lookupError(detail) ==
  IF ~builderClient THEN Error("Nillion builder client not initialized")
  ELSE Error(detail)

\* POST /api/credentials/verify and (route "verify-proof") POST
\* /api/verification/verify-proof: the schema check, the lookup, the
\* response; /verify catches a rejected lookup and answers 'Credential not
\* found', /verify-proof hands it to errorHandler
HttpVerify(route, h, outcome, detail, isDevelopment) ==
  LET credential == getCredentialByProofHash(h, outcome)
      asked      == [kind |-> "verify", proofHash |-> h]
  IN  /\ initialized \/ h = Malformed
      /\ http' =
           IF h = Malformed
             THEN [route |-> route, req |-> asked, calls |-> <<>>,
                   res |-> errorHandler(
                             ValidationError("Invalid request data",
                                             joiDetails(h)),
                             isDevelopment)]
           ELSE IF credential.kind = "throw" /\ route = "verify-proof"
             THEN [route |-> route, req |-> asked,
                   calls |-> lookupCalls(outcome),
                   res |-> errorHandler(lookupError(detail), isDevelopment)]
           ELSE IF credential.kind = "found"
             THEN [route |-> route, req |-> asked,
                   calls |-> lookupCalls(outcome),
                   res |-> Success(IF route = "verify"
                                     THEN "Credential verified from NillionDB"
                                     ELSE "",
                                   credential.status)]
             ELSE [route |-> route, req |-> asked,
                   calls |-> lookupCalls(outcome),
                   res |-> Success("Credential not found", "")]
      /\ UNCHANGED <<initState, vault, up, anchorService, rpcMode, anc,
                     anchorStore, verifyResp, db, hasher, listing,
                 sent,
                 written>>

\* POST /api/verification/compute-hash with type 'json' and the text as
\* data: the Error of computeJsonProofHash goes to errorHandler
HttpComputeHash(text, isDevelopment) ==
  LET h == computeJsonProofHash(Str(text))
  IN  /\ http' = [route |-> "compute-hash",
                  req |-> [kind |-> "compute-hash", body |-> text],
                  calls |-> <<>>,
                  res |-> IF h = "throw"
                            THEN errorHandler(
                                   Error("Invalid JSON data for hashing"),
                                   isDevelopment)
                            ELSE Success("", "")]
      /\ UNCHANGED <<initState, vault, up, anchorService, rpcMode, anc,
                     anchorStore, verifyResp, db, hasher, listing,
                 sent,
                 written>>

\* record ids a client may name: those the model issues and one it never
\* issues
RecordIds == U \cup {MaxUploads + 1}

\* DELETE /api/credentials/:recordId: deleteCredential calls deleteData with
\* the filter {_id: recordId} and answers success when the call resolves,
\* whatever it deleted; a rejection goes to errorHandler as it is
HttpDelete(recordId, outcome, detail, isDevelopment) ==
  LET asked == [kind |-> "delete", recordId |-> recordId]
  IN  /\ initialized
      /\ IF ~builderClient
           THEN /\ vault' = vault
                /\ http' = [route |-> "delete", req |-> asked, calls |-> <<>>,
                            res |-> errorHandler(
                                      Error("Nillion builder client not "
                                              \o "initialized"),
                                      isDevelopment)]
         ELSE IF outcome = "fail"
           THEN /\ vault' = vault
                /\ http' = [route |-> "delete", req |-> asked,
                            calls |-> <<"deleteData">>,
                            res |-> errorHandler(Error(detail), isDevelopment)]
           ELSE /\ vault' = {r \in vault : r.rid # recordId}
                /\ http' = [route |-> "delete", req |-> asked,
                            calls |-> <<"deleteData">>,
                            res |-> Success("Credential deleted successfully",
                                            "")]
      /\ UNCHANGED <<initState, up, anchorService, rpcMode, anc, anchorStore,
                     verifyResp, db, hasher, listing,
                 sent,
                 written>>

\* SDK calls of one getAllCredentials, in order: findData without filter,
\* then with an empty filter, then with the collection as first argument
listCalls(outcome) ==
  IF ~builderClient THEN <<>>
  ELSE IF outcome = "ok" THEN <<"findData">>
  ELSE <<"findData", "findData", "findData">>

\* GET /api/credentials/list: getAllCredentials and the response; its Error
\* without a builder client goes to errorHandler
HttpList(limit, offset, outcome, isDevelopment) ==
  LET asked == [kind |-> "list", limit |-> limit, offset |-> offset]
  IN  /\ initialized
      /\ listing' =
           [listing EXCEPT !.resp =
              IF ~builderClient THEN [kind |-> "error"]
              ELSE IF outcome = "ok"
                THEN getAllCredentials(listing.dataArray, limit, offset)
                ELSE emptyList(limit, offset),
                           !.findData =
                              IF builderClient THEN outcome ELSE "none"]
      /\ http' = [route |-> "list", req |-> asked,
                  calls |-> listCalls(outcome),
                  res |-> IF ~builderClient
                            THEN errorHandler(
                                   Error("Nillion builder client not "
                                           \o "initialized"),
                                   isDevelopment)
                            ELSE Success("", "")]
      /\ UNCHANGED <<initState, vault, up, anchorService, rpcMode, anc,
                     anchorStore, verifyResp, db, hasher, sent,
                 written>>

(* frontend/lib/hash and the upload page *)
\* computeJsonProofHash(jsonData) of the frontend library: the canonical
\* form (the canonicalize of the tool, line for line), serialised and hashed
lib_computeJsonProofHash(jsonData) ==
  sha256Hex(JSONstringify(canonicalize(jsonData), NoReplacer))

\* computeHash(data): a File is hashed by its bytes, anything else as JSON
computeHash(data) ==
  IF data.t = "File" THEN computeBinaryProofHash(data.s)
  ELSE lib_computeJsonProofHash(data)

\* handleFileUpload(file): the request the page sends for a file
handleFileUpload(content) ==
  [kind |-> "file", body |-> content,
   clientProofHash |-> computeHash([t |-> "File", s |-> content])]

\* handleJsonUpload(): the request the page sends for the text typed in,
\* which parses
handleJsonUpload(text) ==
  [kind |-> "json", body |-> JSONstringify(JSONparse(text), NoReplacer),
   clientProofHash |-> computeHash(JSONparse(text))]

\* the requests of the upload page
PageRequests ==
  {handleFileUpload(c) : c \in FileContents}
    \cup {handleJsonUpload(text) :
            text \in {t \in JsonTexts : JSONparse(t).t # "SyntaxError"}}

\* the uploads of the model: every request, those of the upload page
\* included, with the attributes of SmallFile, and one file and one
\* jsonData request with every attribute
UploadInputs ==
  {[req |-> r, file |-> SmallFile] : r \in Requests \cup PageRequests}
    \cup {[req |-> r, file |-> f] :
            r \in {q \in Requests : q.body = "7" /\ q.clientProofHash = NoHash},
            f \in FileAttributes}

\* outcomes of the SDK calls of one upload: the lookup, the collection,
\* the write and the text of the SDK's error
StorageRuns ==
  [lookup : LookupOutcomes, collection : {"exists"}, write : {"ok"},
   detail : {""}]
    \cup [lookup : {"ok"}, collection : {"created"}, write : {"ok"},
          detail : {""}]
    \cup [lookup : {"ok"}, collection : {"createFail"}, write : {"ok"},
          detail : CollaboratorDetails]
    \cup [lookup : {"ok"}, collection : {"exists"}, write : {"fail"},
          detail : CollaboratorDetails]

\* requests served one at a time
NextHttp ==
  \/ InitializeClient
  \/ \E in \in UploadInputs, run \in StorageRuns, isDevelopment \in BOOLEAN :
        HttpUpload(in.req, in.file, run.lookup, run.collection, run.write,
                   run.detail, isDevelopment)
  \/ \E route \in {"verify", "verify-proof"}, h \in VerifyInputs,
        o \in LookupOutcomes, detail \in CollaboratorDetails,
        isDevelopment \in BOOLEAN :
        HttpVerify(route, h, o, detail, isDevelopment)
  \/ \E text \in JsonTexts, isDevelopment \in BOOLEAN :
        HttpComputeHash(text, isDevelopment)
  \/ \E recordId \in RecordIds, o \in StoreOutcomes,
        detail \in CollaboratorDetails, isDevelopment \in BOOLEAN :
        HttpDelete(recordId, o, detail, isDevelopment)

InitHttp == Init /\ rpcMode = "any"

SpecHttp == InitHttp /\ [][NextHttp]_vars

\* C13: the anchor /verify reports for a proof hash is the most recently
\* created AnchorRecord of that hash, never an older attempt's record.
C13_VerifySurfacesLatest ==
  verifyResp.anchor # 0 => verifyResp.anchor = verifyResp.latestStored

\* C14: re-submitting a failed anchor leads to a new AnchorRecord for the
\* same proof hash (the retry is accepted and an anchor job for the
\* credential of the failed row is queued) and leaves every existing
\* AnchorRecord unchanged and present.
C14_RetryStep ==
  (/\ db'.retry # db.retry
   /\ db'.retry.anchorId \in 1..Len(db.anchors)
   /\ db.anchors[db'.retry.anchorId].status = "failed")
    => /\ db'.retry.resp = "enqueued"
       /\ db.anchors[db'.retry.anchorId].credential_id \in db'.jobs
       /\ db'.anchors = db.anchors

RECURSIVE SameData(_, _)
SameData(v, w) ==
  /\ v.t = w.t
  /\ v.t = "number" => v.n = w.n
  /\ v.t = "array" =>
       /\ Len(v.kids) = Len(w.kids)
       /\ \A i \in 1..Len(v.kids) : SameData(v.kids[i], w.kids[i])
  /\ v.t = "object" =>
       /\ {v.keys[i] : i \in DOMAIN v.keys} = {w.keys[i] : i \in DOMAIN w.keys}
       /\ \A i \in DOMAIN v.keys : SameData(v.kids[i], Get(w, v.keys[i]))

\* both texts were hashed by a structured hash function (the tool's or the
\* server's computeJsonProofHash) and both denote JSON values
StructuredPair ==
  /\ hasher.op \in {"hash.js --json", "compute-hash"}
  /\ hasher.hx # "none" /\ hasher.hy # "none"
  /\ JSONparse(hasher.x).t # "SyntaxError"
  /\ JSONparse(hasher.y).t # "SyntaxError"

\* C15: two structured values that are equal as data and differ only in the
\* order of object keys, at any nesting depth, get the same proof hash from
\* computeJsonProofHash, the tool's and the server's.
C15_OrderInvariantHashing ==
  (StructuredPair /\ SameData(JSONparse(hasher.x), JSONparse(hasher.y)))
    => hasher.hx = hasher.hy

\* two texts with the keys of a nested object in different orders were
\* hashed to the same proof hash
C15_Witness ==
  /\ StructuredPair
  /\ hasher.x = "{\"a\":{\"a\":1,\"b\":2}}"
  /\ hasher.y = "{\"a\":{\"b\":2,\"a\":1}}"
  /\ hasher.hx = hasher.hy /\ hasher.hx # "error"

\* two arrays with the same elements in a different order
Reordered(v, w) ==
  /\ v.t = "array" /\ w.t = "array"
  /\ Len(v.kids) = Len(w.kids)
  /\ ~SameData(v, w)
  /\ \E p \in [1..Len(v.kids) -> 1..Len(v.kids)] :
       /\ \A i, j \in 1..Len(v.kids) : p[i] = p[j] => i = j
       /\ \A i \in 1..Len(v.kids) : SameData(v.kids[i], w.kids[p[i]])

\* C16: two arrays with the same elements in a different order get
\* different proof hashes from computeJsonProofHash.
C16_ArrayOrderSensitive ==
  (StructuredPair /\ Reordered(JSONparse(hasher.x), JSONparse(hasher.y)))
    => hasher.hx # hasher.hy

\* C17: for every structured payload the proof hash the server computes
\* (upload with jsonData, POST /compute-hash with type json) equals the
\* hash the standalone tool's computeJsonProofHash computes from it.
C17_ServerHashReproducible ==
  (/\ hasher.op \in {"compute-hash", "compute-hash object", "upload json"}
   /\ JSONparse(hasher.x).t # "SyntaxError")
    => hasher.hx = hash_computeJsonProofHash(Str(hasher.x))

\* C18: for any file the proof hash computed by upload equals what the
\* standalone tool's computeFileProofHash returns for the same bytes.
C18_TwoPathRuleOnUpload ==
  hasher.op = "upload file" => hasher.hx = computeFileProofHash(hasher.x)

\* the collection with every payload replaced by the same text
Redacted(dataArray) ==
  [i \in 1..Len(dataArray) |->
     [dataArray[i] EXCEPT !.document_content = "redacted"]]

\* C19: the response of GET /list is the response the same request gets
\* from a store whose records differ only in payload content: no field of
\* it depends on the stored payloads.
C19_Step ==
  (listing'.resp # listing.resp /\ listing'.resp.kind = "list") =>
    listing'.resp = getAllCredentials(Redacted(listing.dataArray),
                                      listing'.resp.limit,
                                      listing'.resp.offset)

C19_ListMetadataOnly == [][C19_Step]_vars

\* C20: when the storage write of an upload fails, the upload is answered
\* with a 5xx error and a record of this upload for its proof hash is
\* retained in the store.
C20_Step ==
  \A u \in U :
    (up[u].pc = "store" /\ up'[u].pc = "done" /\ up'[u].resp.kind = "error")
      => /\ up'[u].resp.status = "500"
         /\ [rid |-> u, proof_hash |-> up[u].hash] \in vault'

C20_StorageFailureAuditable == [][C20_Step]_vars

\* the upload served last is over a configured size limit: a file larger
\* than fileSize, or a plaintext field (file_name, file_type) longer than
\* maxFieldBytes
NameBytes(req) ==
  fileNameBytes(req, req.file).stem + fileNameBytes(req, req.file).ext

OverLimit(req) ==
  \/ req.kind = "file" /\ req.file.size > fileSize
  \/ req.kind # "empty" /\ NameBytes(req) > maxFieldBytes
  \/ req.kind # "empty" /\ fileTypeBytes(req, req.file) > maxFieldBytes

\* the response rejects the upload for its size
SizeRejection(res) ==
  \/ res.statusCode = 413
  \/ \E f \in FileAttributes, kind \in {"file", "json"} :
        LET sizeError == fieldSizeError(fileNameBytes([kind |-> kind], f),
                                        fileTypeBytes([kind |-> kind], f))
        IN  /\ sizeError # ""
            /\ res.error = "Failed to store credential in vault: NillionDB "
                             \o "storage failed: " \o sizeError

\* C21: an upload over a size limit (10MB for a file, 4096 bytes for a
\* plaintext field) is rejected before any call to the storage SDK or to
\* anchoring, and an upload within the limits is not rejected for its size
C21_SizeLimitFailsFast ==
  http.route = "upload" =>
    /\ OverLimit(http.req) => http.res.statusCode >= 400 /\ http.calls = <<>>
    /\ ~OverLimit(http.req) => ~SizeRejection(http.res)

\* the file size limit alone
C21_FileSizeFailsFast ==
  http.route = "upload" =>
    /\ (http.req.kind = "file" /\ http.req.file.size > fileSize) =>
          http.res.statusCode = 413 /\ http.calls = <<>>
    /\ (http.req.kind = "file" /\ http.req.file.size <= fileSize) =>
          http.res.statusCode # 413

\* the request served last was malformed: a proof hash that is not 64
\* hexadecimal characters, an upload with neither file nor jsonData, or
\* JSON that does not parse (on upload and on /compute-hash)
MalformedInput(req) ==
  \/ req.kind = "verify" /\ req.proofHash = Malformed
  \/ req.kind = "empty"
  \/ req.kind \in {"json", "compute-hash"}
       /\ JSONparse(req.body).t = "SyntaxError"

\* the response names what was wrong with the request: it carries details,
\* or a message other than the generic ones
NamesConstraint(res) ==
  \/ res.details # ""
  \/ res.error \notin {"", "Validation Error", "Internal Server Error"}

\* C22: malformed input is rejected as a validation error (4xx) before any
\* call to a collaborator, and the response reports the violated constraint
C22_MalformedIsValidationError ==
  MalformedInput(http.req) =>
    /\ http.res.statusCode \in 400..499
    /\ http.calls = <<>>
    /\ NamesConstraint(http.res)

\* a DELETE is answered for a record id that matches no stored record
C23_Step ==
  (/\ http' # http
   /\ http'.route = "delete"
   /\ \A r \in vault : r.rid # http'.req.recordId) =>
    /\ http'.res.statusCode >= 400
    /\ vault' = vault

\* C23: DELETE of a handle that matches no stored record is answered with
\* an error, not with success, and leaves every stored record unchanged
C23_DeleteUnknownIsError == [][C23_Step]_vars

\* a DELETE of an unknown handle changes no stored record
C23_DeleteUnknownFrame ==
  [][(http'.route = "delete" /\ http' # http
        /\ \A r \in vault : r.rid # http'.req.recordId) => vault' = vault]_vars

\* the text d occurs in the text s
Contains(s, d) ==
  \E i \in 1..(Len(s) - Len(d) + 1) : SubSeq(s, i, i + Len(d) - 1) = d

\* C24: no response carries the error text of a collaborator or a stack
\* trace, so failures that differ only in the collaborator's error detail
\* are answered alike
C24_CollaboratorErrorsSanitized ==
  /\ \A d \in CollaboratorDetails :
        ~Contains(http.res.error, d) /\ ~Contains(http.res.details, d)
  /\ ~http.res.stack

\* the same for a server that does not run with NODE_ENV 'development'
C24_SanitizedInProduction ==
  ~http.res.stack =>
    \A d \in CollaboratorDetails :
      ~Contains(http.res.error, d) /\ ~Contains(http.res.details, d)

\* C25: a verify response reports that the credential exists only when a
\* stored record has exactly the queried proof hash, letter case included,
\* and then proof_hash_matches is true
C25_VerifyMatchesExactly ==
  verifyResp.kind = "exists" =>
    /\ \E r \in vault : r.proof_hash = verifyResp.proofHash
    /\ verifyResp.endpoint = "verify-proof" => verifyResp.proof_hash_matches

\* a query that differs from a stored hash in letter case only was
\* answered 'not found'
C25_Witness ==
  /\ verifyResp.kind = "not_found"
  /\ verifyResp.lookupOk
  /\ \A r \in vault : r.proof_hash # verifyResp.proofHash
  /\ \E r \in vault : CaseVariant(r.proof_hash) = verifyResp.proofHash

\* SDK calls that read
ReadCalls == {"refreshRootToken", "findData"}

\* a verify request is answered
C26_Step ==
  (http' # http /\ http'.route \in {"verify", "verify-proof"}) =>
    /\ vault' = vault
    /\ anc' = anc
    /\ anchorStore' = anchorStore
    /\ \A i \in 1..Len(http'.calls) : http'.calls[i] \in ReadCalls

\* C26: a verify request, whether the hash is stored or not, changes no
\* stored credential and no anchor, and makes no call that writes, anchors
\* or deletes
C26_VerifyHasNoSideEffects == [][C26_Step]_vars

\* a stored credential was verified, and a hash that is not stored was
\* answered 'not found' after the lookup
C26_Witness ==
  /\ http.route \in {"verify", "verify-proof"}
  /\ vault # {}
  /\ http.calls = <<"refreshRootToken", "findData">>
  /\ http.res.statusCode = 200
  /\ http.res.status = "vaulted"

\* C27: once the blockchain anchor of a proof hash is confirmed, verify
\* reports the lifecycle status of the credential as anchored
C27_LifecycleReachesAnchored ==
  (/\ verifyResp.kind = "exists"
   /\ verifyResp.anchorType = "blockchain"
   /\ verifyResp.anchorStatus = "confirmed") =>
    verifyResp.status = "anchored"

\* the upload supplies a clientProofHash that differs from the hash the
\* server computes for it
HashMismatch(req) ==
  /\ req.kind \in {"file", "json"}
  /\ UploadHash(req) # "ValidationError"
  /\ req.clientProofHash # NoHash
  /\ req.clientProofHash # UploadHash(req)

\* an upload with a mismatching clientProofHash is answered
C28_Step ==
  (http' # http /\ http'.route = "upload" /\ HashMismatch(http'.req)) =>
    /\ http'.res.statusCode = 400
    /\ http'.res.error = "Validation Error"
    /\ http'.calls = <<>>
    /\ vault' = vault
    /\ anc' = anc

\* C28: an upload whose clientProofHash differs from the hash the server
\* computed is rejected with a validation error, and no duplicate lookup,
\* storage write or anchoring is performed
C28_ClientHashMismatchRejected == [][C28_Step]_vars

\* a file other than the one the client hash was computed for was rejected
\* while the collection holds a record
C28_Witness ==
  /\ http.route = "upload"
  /\ HashMismatch(http.req)
  /\ http.res.statusCode = 400
  /\ vault # {}

\* the request is one the upload page builds
FromPage(req) ==
  /\ req.kind \in {"file", "json"}
  /\ [kind |-> req.kind, body |-> req.body,
      clientProofHash |-> req.clientProofHash] \in PageRequests

\* C29: for a file or a JSON payload the clientProofHash the frontend
\* library computes equals the hash the server computes for the upload the
\* page builds, and the upload is not rejected with a validation error
C29_HonestClientNotRejected ==
  (http.route = "upload" /\ FromPage(http.req)) =>
    /\ UploadHash(http.req) = http.req.clientProofHash
    /\ http.res.statusCode # 400

\* the same for files only
C29_HonestFileNotRejected ==
  (http.route = "upload" /\ FromPage(http.req) /\ http.req.kind = "file") =>
    /\ UploadHash(http.req) = http.req.clientProofHash
    /\ http.res.statusCode # 400

\* anchoring is started only by an upload whose write succeeded; anchorData
\* is created only while a credential with the proof hash is stored; a
\* record is stored only for anchorData so created
C30_Step ==
  \A a \in U :
    /\ (anc[a].pc = "none" /\ anc'[a].pc # "none") =>
          up[a].wrote /\ up[a].hash = anc'[a].hash
    /\ (anc[a].seq = 0 /\ anc'[a].seq > 0) =>
          (initState = "ready" /\ \E r \in vault : r.proof_hash = anc[a].hash)
    /\ (~anc[a].stored /\ anc'[a].stored) => anc[a].seq > 0

\* C30: anchoring is triggered only after the storage write of the upload
\* succeeded, and anchorCredential stores no anchor record when the lookup
\* of the credential returns nothing or fails
C30_AnchoringFollowsStore == [][C30_Step]_vars

\* every anchor record belongs to a proof hash that was stored
C30_AnchorsOfStored ==
  /\ \A a \in U : anc[a].stored => EverStored(anc[a].hash)
  /\ \A h \in Hashes : anchorStore[h] # 0 => EverStored(h)

\* one anchoring stored its record, another was rejected because the
\* credential was not found, and no record was stored for it
C30_Witness ==
  \E a, b \in U :
    /\ anc[a].stored /\ anchorStore[anc[a].hash] # 0
    /\ anc[b].pc = "rejected" /\ ~anc[b].stored

(************************** sendTransaction alone ***************************)
\* answers of any endpoint to the four send methods, in order
AllAnswers == [1..Len(methods) -> {"result", "error", "throw", "empty", "null"}]

\* one call of sendTransaction(signedTx): the loop over the methods and the
\* result returned
SendTransaction(proofHash, nonce, rpc) ==
  /\ sent.pc = "idle"
  /\ sent' = [pc |-> "returned",
              proofHash |-> proofHash,
              rpc |-> rpc,
              posts |-> methodsPosted(rpc, 1),
              txResult |-> sendTransaction(
                             [signature |->
                                createTransactionHash(proofHash, nonce),
                              proofHash |-> proofHash], rpc, 1)]
  /\ UNCHANGED <<initState, vault, up, anchorService, rpcMode, anc,
                 anchorStore, verifyResp, db, hasher, listing, http,
                 written>>

NextSend ==
  \E h \in Hashes, n \in {"0", "1"}, rpc \in AllAnswers :
     SendTransaction(h, n, rpc)

SpecSend == InitAnchor /\ [][NextSend]_vars

\* the methods whose response carried a body without error
Succeeded == {i \in 1..Len(sent.rpc) : sent.rpc[i] = "result"}

AnchorShape(a) ==
  /\ anc[a].status \in {"pending", "confirmed", "failed", "verified"}
  /\ anc[a].anchor_type \in {"blockchain", "proof_hash_verification"}
  /\ anc[a].status = "verified"
       <=> anc[a].anchor_type = "proof_hash_verification"
  /\ anc[a].block_height # "none"
       => anc[a].status \in {"confirmed", "failed"}

\* C32: every stored anchor record has a defined anchor identifier, a
\* status among pending, confirmed, failed, verified, a kind among
\* blockchain, proof_hash_verification, status verified exactly for kind
\* proof_hash_verification, and a block height only when confirmed or failed
C32_AnchorRecordWellFormed ==
  \A a \in U :
    anc[a].stored =>
      /\ anc[a].tx_hash \notin {"undefined", "none", ""}
      /\ AnchorShape(a)

\* the same without the identifier
C32_ShapeOfStored == \A a \in U : anc[a].stored => AnchorShape(a)

(************************** readiness of the storage client ****************)
\* the constructor returns: initialization under way, or, with
\* NILCHAIN_URL, NILAUTH_URL or NILDB_NODES missing, no builder client and
\* no initializationPromise
InitReady ==
  /\ initState \in {"pending", "failed"}
  /\ db = InitDb
  /\ listing = NoListing
  /\ http = NoHttp
  /\ sent = NoSend
  /\ written = NoStore
  /\ hasher = NoHasher
  /\ vault = {}
  /\ up = [u \in U |-> IdleUpload]
  /\ anchorService \in BOOLEAN
  /\ rpcMode = "any"
  /\ anc = [a \in U |-> NoAnchor]
  /\ anchorStore = [h \in Hashes |-> 0]
  /\ verifyResp = NoVerify

\* requests served while the client initializes, after it has and after it
\* failed to
NextReady ==
  \/ CreateBuilderClient
  \/ InitializeClient
  \/ \E req \in Requests, lookup \in LookupOutcomes, write \in StoreOutcomes :
        HttpUpload(req, SmallFile, lookup, "exists", write,
                   "connect ECONNREFUSED 10.0.0.7:443", FALSE)
  \/ \E route \in {"verify", "verify-proof"}, h \in VerifyInputs,
        o \in LookupOutcomes :
        HttpVerify(route, h, o, "connect ECONNREFUSED 10.0.0.7:443", FALSE)
  \/ \E r \in RecordIds, o \in StoreOutcomes :
        HttpDelete(r, o, "connect ECONNREFUSED 10.0.0.7:443", FALSE)
  \/ \E limit \in {1, 50}, offset \in {0, 1}, o \in StoreOutcomes :
        HttpList(limit, offset, o, FALSE)

SpecReady == InitReady /\ [][NextReady]_vars

\* the request served last reached a storage operation
ReachedStorage ==
  \/ http.route \in {"delete", "list"}
  \/ http.route \in {"verify", "verify-proof"}
       /\ http.req.proofHash # Malformed
  \/ http.route = "upload" /\ uploadValidation(
                                [kind |-> http.req.kind,
                                 body |-> http.req.body,
                                 clientProofHash |->
                                   http.req.clientProofHash]) = NoError

\* C33: store, lookup, list and delete call the storage SDK only after the
\* initialization has finished; when it failed or the configuration is
\* missing each of them is rejected with an error (POST /verify answers the
\* rejected lookup with 'Credential not found') and none reports success
C33_ReadyBeforeUse ==
  /\ http.calls # <<>> => initState = "ready"
  /\ initState = "failed" =>
       /\ \A h \in VerifyInputs, o \in LookupOutcomes :
            getCredentialByProofHash(h, o).kind = "throw"
       /\ \A w \in StoreOutcomes :
            storeCredential(SmallFile.stem + SmallFile.ext, SmallFile.mime,
                            "exists", w, "").error # ""
       /\ ReachedStorage =>
            IF http.route = "verify"
              THEN http.res.message = "Credential not found"
              ELSE http.res.statusCode = 500
       /\ vault = {}

\* a delete was asked for after the initialization had failed and was
\* answered with the error
C33_Witness ==
  /\ initState = "failed"
  /\ http.route = "delete"
  /\ http.calls = <<>>
  /\ http.res.statusCode = 500
  /\ http.res.error = "Nillion builder client not initialized"

\* a list was served after the initialization had finished
C33_WitnessReady ==
  /\ initState = "ready"
  /\ http.route = "list"
  /\ http.calls = <<"findData">>

\* C34: in the database-backed pipeline the status of a credential that is
\* anchored stays anchored: no later step sets it back to failed, vaulted
\* or uploaded
C34_Step ==
  \A u \in U :
    db.cred[u].status = "anchored" => db'.cred[u].status = "anchored"

C34_AnchoringStep ==
  (\A u \in U : db'.resp[u] = db.resp[u]) => C34_Step

C34_AnchoredKeptByAnchoring == [][C34_AnchoringStep]_vars

\* POST /retry was served in this step, for a row that is not 'failed' or
\* for an id without a row
RetryRefused ==
  /\ db'.retry # db.retry
  /\ \/ db'.retry.anchorId \notin 1..Len(db.anchors)
     \/ db.anchors[db'.retry.anchorId].status # "failed"

\* what a refused retry leaves alone: the queue and the audit log
RetryFrame ==
  RetryRefused => /\ db'.jobs = db.jobs
                  /\ db'.accepted = db.accepted
                  /\ db'.audit = db.audit

\* C35: POST /retry for an anchor whose status is not failed is answered
\* with a validation error (400) and for an unknown anchor id with not
\* found (404); neither enqueues an anchor job nor writes an audit log entry
C35_Step ==
  /\ RetryRefused =>
       db'.retry.resp = IF db'.retry.anchorId \in 1..Len(db.anchors)
                          THEN "error400" ELSE "error404"
  /\ RetryFrame

C35_RetryOnlyFailed == [][C35_Step]_vars

\* the second half of C35 alone
C35_RefusedRetryFrame == [][RetryFrame]_vars

\* credential u was handed to anchorCredential: it has a row in anchors
Handed(u) == \E i \in 1..Len(db.anchors) : db.anchors[i].credential_id = u

\* C36: every anchor job that enqueueAnchorJob accepted is eventually handed
\* to anchorCredential; the worker takes its jobs from the queue, so until
\* then the job of an upload answered 'queued for anchoring' is in the queue
C36_AcceptedJobsProcessed ==
  \A u \in db.accepted :
    db.resp[u] = "vaulted" => u \in db.jobs \/ Handed(u)

\* the same with a connected queue
C36_QueuedWhenConnected ==
  db.anchorQueue => C36_AcceptedJobsProcessed


\* ---------------------------------------------------------------------
\* storeCredentialReal alone: one call per behaviour, over file names and
\* types around the 4096-byte limit of a plaintext field

\* file names: characters before the last dot, characters of the extension
\* (0: a name without one), bytes per character in UTF-8
FileNames ==
  [stem : {8, keptNameChars, keptNameChars + 1, maxFieldBytes - 4,
           maxFieldBytes - 3, maxFieldBytes + 1},
   ext : {0, 4, maxFieldBytes - keptNameChars,
          maxFieldBytes - keptNameChars + 1},
   width : {1, 3}]

\* encoded sizes of file_type
FileTypes == {15, maxFieldBytes, maxFieldBytes + 1}

StoreCredentialReal(name, type, collection, write, detail) ==
  LET result == storeCredentialReal(name, type, collection, write, detail)
  IN  /\ written.pc = "idle"
      /\ written' = [pc |-> "returned", name |-> name, type |-> type,
                     calls |-> result.calls, record |-> result.record,
                     error |-> result.error]
      /\ UNCHANGED <<initState, vault, up, anchorService, rpcMode, anc,
                     anchorStore, verifyResp, db, hasher, listing, http,
                     sent>>

NextStore ==
  \E name \in FileNames, type \in FileTypes,
     collection \in {"exists", "created", "createFail"},
     write \in {"ok", "fail"}, detail \in {"Unknown error"} :
       StoreCredentialReal(name, type, collection, write, detail)

SpecStore == InitAnchor /\ [][NextStore]_vars

\* createStandardData was called
WriteIssued ==
  \E i \in 1..Len(written.calls) : written.calls[i] = "createStandardData"

\* C37: a record reaches createStandardData only with file_name and
\* file_type of at most 4096 encoded bytes; a longer file_name is written
\* shortened with its extension unchanged, a fitting one is written as
\* given; a field over the limit after the truncation makes the call throw
\* without writing
C37_PlaintextFieldsBounded ==
  written.pc = "returned" =>
    LET name  == written.name
        given == encodedSize(name.stem + name.ext, name.width)
        cut   == encodedSize(Min(name.stem, keptNameChars) + name.ext,
                             name.width)
    IN  /\ WriteIssued =>
             /\ written.record.file_name <= maxFieldBytes
             /\ written.record.file_type <= maxFieldBytes
             /\ written.record.file_type = written.type
             /\ written.record.ext = name.ext
        /\ WriteIssued /\ given > maxFieldBytes =>
             /\ written.record.stem = Min(name.stem, keptNameChars)
             /\ written.record.file_name = cut
        /\ WriteIssued /\ given <= maxFieldBytes =>
             /\ written.record.stem = name.stem
             /\ written.record.file_name = given
        /\ (written.type > maxFieldBytes
              \/ (given > maxFieldBytes /\ cut > maxFieldBytes)) =>
             /\ ~WriteIssued
             /\ written.error # ""

\* a file name over the limit was shortened and written with its extension
C37_Witness ==
  /\ written.pc = "returned"
  /\ WriteIssued
  /\ written.error = ""
  /\ written.name.ext > 0
  /\ encodedSize(written.name.stem + written.name.ext, written.name.width)
       > maxFieldBytes
  /\ written.record.file_name <= maxFieldBytes

\* a file name still over the limit after the truncation was rejected
C37_WitnessRejected ==
  /\ written.pc = "returned"
  /\ ~WriteIssued
  /\ written.type <= maxFieldBytes
  /\ written.name.ext = maxFieldBytes - keptNameChars + 1
  /\ written.name.width = 1
  /\ written.error # ""


\* ---------------------------------------------------------------------
\* pages of a collection whose records findData returns in any order, with
\* equal and with different times of storage

PageLimits == 0..3

PageOffsets == 0..3

NextPages ==
  \/ InitializeClient
  \/ \E payload \in {p \in StoredPayloads : p.document_content = "7"},
        pos \in 1..MaxStored, stored_at \in {1, 2} :
        StoreRecordAt(payload, pos, stored_at)
  \/ \E limit \in PageLimits, offset \in PageOffsets, o \in StoreOutcomes :
        ListCredentials(limit, offset, o)

SpecPages == InitList /\ [][NextPages]_vars

\* the stored records newer than record r, and those at least as new
Newer(r) ==
  {k \in DOMAIN listing.dataArray :
     listing.dataArray[k].stored_at > r.stored_at}

NotOlder(r) ==
  {k \in DOMAIN listing.dataArray :
     listing.dataArray[k].stored_at >= r.stored_at}

\* the response is the page at resp.offset of resp.limit records of a
\* newest-first ordering of the stored records, with their number as total
PageOfStore(resp) ==
  LET n    == Len(listing.dataArray)
      page == resp.credentials
      left == IF resp.offset < n THEN n - resp.offset ELSE 0
  IN  /\ resp.total = n
      /\ resp.hasMore <=> resp.offset + resp.limit < n
      /\ Len(page) = IF resp.limit < left THEN resp.limit ELSE left
      /\ \A i \in DOMAIN page :
           /\ \E k \in DOMAIN listing.dataArray :
                page[i] = credentialOf(listing.dataArray[k])
           /\ Cardinality(Newer(page[i])) < resp.offset + i
           /\ resp.offset + i <= Cardinality(NotOlder(page[i]))
      /\ \A i, j \in DOMAIN page : i # j => page[i].id # page[j].id

\* consecutive pages of limit records hold every stored record exactly once
EveryRecordOnce(limit) ==
  LET all == consecutivePages(listing.dataArray, limit, 0)
  IN  /\ Len(all) = Len(listing.dataArray)
      /\ \A k \in DOMAIN listing.dataArray :
           Cardinality({i \in DOMAIN all :
                          all[i] = credentialOf(listing.dataArray[k])}) = 1

\* GET /list was answered in this step
Listed == listing'.dataArray = listing.dataArray /\ listing' # listing

C38_Step ==
  (Listed /\ listing'.resp.kind = "list") => PageOfStore(listing.resp)'

C38_StepWhenRead ==
  /\ (Listed /\ listing'.resp.kind = "list" /\ listing'.findData = "ok") =>
        PageOfStore(listing.resp)'
  /\ (Listed /\ listing'.resp.kind = "list" /\ listing'.findData # "ok") =>
        listing'.resp = emptyList(listing'.resp.limit, listing'.resp.offset)

ServerPair ==
  /\ hasher.op \in {"compute-hash", "upload json"}
  /\ hasher.hx \notin {"none", "error"} /\ hasher.hy \notin {"none", "error"}
  /\ JSONparse(hasher.x).t # "SyntaxError"
  /\ JSONparse(hasher.y).t # "SyntaxError"

\* C39: two structured payloads that differ in some key or value, at any
\* depth, never get the same proof hash from the server
C39_DistinctPayloadsDistinct ==
  (ServerPair /\ ~SameData(JSONparse(hasher.x), JSONparse(hasher.y)))
    => hasher.hx # hasher.hy

\* the same for payloads given to the standalone tool
C39_DistinctByTool ==
  ( /\ hasher.op = "hash.js --json"
    /\ hasher.hx \notin {"none", "error"} /\ hasher.hy \notin {"none", "error"}
    /\ ~SameData(JSONparse(hasher.x), JSONparse(hasher.y)) )
    => hasher.hx # hasher.hy

====
